---- MODULE Spec2Model ----
(***************************************************************************)
(* Verification model of the AIMS front end (the-carnage/aims_frontend).   *)
(*                                                                         *)
(*  - Mission State Store: contexts/MissionContext (missionReducer and     *)
(*    MissionProvider with its simulation-loop and trajectory effects).    *)
(*  - Data Access Layer: services/api (apiRequest with retry/backoff and   *)
(*    ApiClient.request, the envelope boundary).                           *)
(*                                                                         *)
(* Time values (Date.now(), launch windows, timer periods) are counted in  *)
(* tenths of a second, so that 30 days still fits a machine integer.       *)
(* A nullable field (T | null) is a sequence of length 0 or 1.             *)
(* Math.random() is a draw k / RandDenom with k in 0 .. RandLevels - 1.    *)
(***************************************************************************)
EXTENDS Integers, Sequences, FiniteSets, TLC

(***************************************************************************)
(* Bounds of the model.                                                    *)
(***************************************************************************)
MaxClockSteps == 4      \* the clock advances at most this many times
MaxReducerClockSteps == 1   \* the same, where the reducer is driven alone
ClockStep == 5          \* one clock advance, in tenths of a second
RandLevels == 2         \* number of distinct outcomes of Math.random()
RandDenom == 4          \* Math.random() = k / RandDenom
MaxElapsed == 2         \* cap on UPDATE_SIMULATION_TIME dispatches counted
MaxRegistrations == 2   \* listener registrations made on the SocketService
MaxBuffered == 1        \* packets a socket holds back while not connected
MaxSockets == 3         \* sockets made by useWebSocket
MaxInFlight == 2        \* requests of one polling effect in flight
MaxPayload == 4         \* longest payload list of a scored config
PathSteps == 12         \* a sampled path has PathSteps + 1 samples
FloatMax == 100000      \* the largest finite number (Number.MAX_VALUE)
MaxIterations == 12     \* Newton iterations of one solveKeplerEquation call
MaxLateTicks == 2        \* ticks a late run is short of using up the fuel

(***************************************************************************)
(* Program constants.                                                      *)
(***************************************************************************)
Second == 10                          \* 1000 ms
Day == 24 * 60 * 60 * Second          \* 1000 * 60 * 60 * 24 ms
IntervalPeriod == Second              \* setInterval(..., 1000)
TrajectorySteps == 100                \* const steps = 100

Null == <<>>
Some(v) == <<v>>

Max(a, b) == IF a >= b THEN a ELSE b
Min(a, b) == IF a <= b THEN a ELSE b
Abs(a) == IF a < 0 THEN -a ELSE a

RandomDraws == 0 .. (RandLevels - 1)
\* the draws of one handler invocation, enumerated level by level
StartDraws == {<<k, k, k>> : k \in RandomDraws}
TickDraws == {<<k, k>> : k \in RandomDraws}
\* Math.random() * scale for the draw k (exact: RandDenom divides the scales)
RandomTimes(k, scale) == (k * scale) \div RandDenom

(***************************************************************************)
(* types: MissionConfig, MissionStatus                                     *)
(***************************************************************************)
\* fuelRemaining (a percentage) is counted in tenths of a percentage point
FuelFull == 1000        \* fuelRemaining: 100
FuelPerTick == 1        \* fuelRemaining - 0.1

Positions == {<<30, 0, 0>>, <<0, 12, -6>>}

MissionConfig(launchWindow, propulsionType, payload) ==
    [launchWindow |-> launchWindow, propulsionType |-> propulsionType,
     payload |-> payload, trajectoryType |-> "hohmann",
     fuelCapacity |-> 10000, missionDuration |-> 365]

\* configs handed to setMissionConfig
MissionConfigs ==
    {MissionConfig(40 * Day, "ion", <<"camera", "probe">>)}

\* String(n).padStart(2, '0')
PadStart2(n) == IF n < 10 THEN "0" \o ToString(n) ELSE ToString(n)

formatTime(seconds) ==
    LET hours == seconds \div 3600
        minutes == (seconds % 3600) \div 60
        secs == seconds % 60
    IN PadStart2(hours) \o ":" \o PadStart2(minutes) \o ":" \o PadStart2(secs)

\* statuses an external status source hands to updateMissionStatus
ExternalStatuses ==
    {[phase |-> "CRUISE", timeToIntercept |-> "00:10:00",
      distanceToTarget |-> 500000, velocity |-> 60, fuelRemaining |-> 1,
      successProbability |-> 50, missionElapsed |-> "01:00:00"]}

(***************************************************************************)
(* initialState                                                            *)
(***************************************************************************)
\* new Date(Date.now() + 24h).toISOString().slice(0, 16): cut to the minute
InitialLaunchWindow(t) == ((t + Day) \div (60 * Second)) * (60 * Second)

initialState(t) ==
    [missionConfig |->
        MissionConfig(InitialLaunchWindow(t), "chemical", <<"camera">>),
     missionStatus |-> Null,
     simulationState |->
        [isRunning |-> FALSE, currentTime |-> t, timeAcceleration |-> 1,
         elapsedTime |-> 0],
     interceptorTrajectory |-> Null,
     missionData |-> Null]

(***************************************************************************)
(* utils/orbitalMechanics: calculateInterceptTrajectory                    *)
(* Point number i (from 0) is kept exactly, as <<x, y, z, a>>: the lerp    *)
(* coordinates times TrajectorySteps and the amplitude a of the term       *)
(* a * sin(t * PI) the code adds to y, with t = i / TrajectorySteps.       *)
(***************************************************************************)
calculateInterceptTrajectory(startPos, targetPos, propulsionType) ==
    LET curve == 5 * (IF propulsionType = "ion" THEN 2 ELSE 1)
    IN [i \in 1 .. (TrajectorySteps + 1) |->
          <<startPos[1] * TrajectorySteps + (targetPos[1] - startPos[1]) * (i - 1),
            startPos[2] * TrajectorySteps + (targetPos[2] - startPos[2]) * (i - 1),
            startPos[3] * TrajectorySteps + (targetPos[3] - startPos[3]) * (i - 1),
            curve>>]

(***************************************************************************)
(* missionReducer, one operator per case.  now is Date.now(); rnd are the  *)
(* three Math.random() draws of START_SIMULATION.                          *)
(***************************************************************************)
\* mutant: the payload list of the stored config is kept
ReduceSetMissionConfig_KeepsPayload(state, payload) ==
    [state EXCEPT !.missionConfig =
        [payload EXCEPT !.payload = state.missionConfig.payload]]

ReduceSetMissionConfig(state, payload) ==
    [state EXCEPT !.missionConfig = payload]

\* mutant: the rate is not clamped
StartSuccessRate_Unclamped(config, now) ==
    LET timeDiff == Abs(config.launchWindow - now)
        base == 75 + (CASE config.propulsionType = "nuclear" -> 15
                        [] config.propulsionType = "ion" -> 10
                        [] config.propulsionType = "chemical" -> 5
                        [] OTHER -> 0)
        timed == IF timeDiff < Day THEN base + 10
                 ELSE IF timeDiff > 30 * Day THEN base - 15
                 ELSE base
    IN timed - Len(config.payload) * 2

StartSuccessRate(config, now) ==
    LET timeDiff == Abs(config.launchWindow - now)
        base == 75 + (CASE config.propulsionType = "nuclear" -> 15
                        [] config.propulsionType = "ion" -> 10
                        [] config.propulsionType = "chemical" -> 5
                        [] OTHER -> 0)
        timed == IF timeDiff < Day THEN base + 10
                 ELSE IF timeDiff > 30 * Day THEN base - 15
                 ELSE base
    IN Max(60, Min(95, timed - Len(config.payload) * 2))

\* mutant: a status that exists is kept (missionStatus ?? { ... })
ReduceStartSimulation_KeepsStatus(state, now, rnd) ==
    [state EXCEPT
       !.simulationState =
           [state.simulationState EXCEPT !.isRunning = TRUE,
                                         !.elapsedTime = 0,
                                         !.currentTime = now],
       !.missionStatus =
           IF state.missionStatus # Null THEN state.missionStatus
           ELSE Some([phase |-> "LAUNCH",
                      timeToIntercept |-> formatTime(RandomTimes(rnd[1], 3600) + 1800),
                      distanceToTarget |-> RandomTimes(rnd[2], 50000000) + 100000000,
                      velocity |-> RandomTimes(rnd[3], 5000) + 15000,
                      fuelRemaining |-> FuelFull,
                      successProbability |-> StartSuccessRate(state.missionConfig, now),
                      missionElapsed |-> "00:00:00"])]

ReduceStartSimulation(state, now, rnd) ==
    LET timeToIntercept == RandomTimes(rnd[1], 3600) + 1800
        distance == RandomTimes(rnd[2], 50000000) + 100000000
        velocity == RandomTimes(rnd[3], 5000) + 15000
    IN [state EXCEPT
          !.simulationState =
              [state.simulationState EXCEPT !.isRunning = TRUE,
                                            !.elapsedTime = 0,
                                            !.currentTime = now],
          !.missionStatus =
              Some([phase |-> "LAUNCH",
                    timeToIntercept |-> formatTime(timeToIntercept),
                    distanceToTarget |-> distance,
                    velocity |-> velocity,
                    fuelRemaining |-> FuelFull,
                    successProbability |-> StartSuccessRate(state.missionConfig, now),
                    missionElapsed |-> "00:00:00"])]

\* mutant: pausing also rewinds the elapsed counter
ReducePauseSimulation_ClearsElapsed(state) ==
    [state EXCEPT !.simulationState =
        [state.simulationState EXCEPT !.isRunning = FALSE, !.elapsedTime = 0]]

ReducePauseSimulation(state) ==
    [state EXCEPT !.simulationState =
        [state.simulationState EXCEPT !.isRunning = FALSE]]

\* mutant: the line missionStatus: null is missing
ReduceResetSimulation_KeepsStatus(state, now) ==
    [state EXCEPT
       !.simulationState =
           [state.simulationState EXCEPT !.isRunning = FALSE,
                                         !.elapsedTime = 0,
                                         !.currentTime = now]]

\* mutant: the line isRunning: false is missing
ReduceResetSimulation_KeepsRunning(state, now) ==
    [state EXCEPT
       !.simulationState =
           [state.simulationState EXCEPT !.elapsedTime = 0,
                                         !.currentTime = now],
       !.missionStatus = Null]

ReduceResetSimulation(state, now) ==
    [state EXCEPT
       !.simulationState =
           [state.simulationState EXCEPT !.isRunning = FALSE,
                                         !.elapsedTime = 0,
                                         !.currentTime = now],
       !.missionStatus = Null]

ReduceUpdateMissionStatus(state, payload) ==
    [state EXCEPT !.missionStatus = Some(payload)]

\* mutant: sign slip, elapsedTime - 1
ReduceUpdateSimulationTime_Decrements(state, payload) ==
    [state EXCEPT !.simulationState =
        [state.simulationState EXCEPT
            !.currentTime = payload,
            !.elapsedTime = state.simulationState.elapsedTime - 1]]

ReduceUpdateSimulationTime(state, payload) ==
    [state EXCEPT !.simulationState =
        [state.simulationState EXCEPT
            !.currentTime = payload,
            !.elapsedTime = state.simulationState.elapsedTime + 1]]

ReduceSetInterceptorTrajectory(state, payload) ==
    [state EXCEPT !.interceptorTrajectory = Some(payload)]

\* the payload is itself nullable (MissionContextState['missionData'])
ReduceUpdateMissionData(state, payload) ==
    [state EXCEPT !.missionData = payload]

missionReducer(state, action, now, rnd) ==
    CASE action.type = "SET_MISSION_CONFIG" -> ReduceSetMissionConfig(state, action.payload)
      [] action.type = "START_SIMULATION" -> ReduceStartSimulation(state, now, rnd)
      [] action.type = "PAUSE_SIMULATION" -> ReducePauseSimulation(state)
      [] action.type = "RESET_SIMULATION" -> ReduceResetSimulation(state, now)
      [] action.type = "UPDATE_MISSION_STATUS" -> ReduceUpdateMissionStatus(state, action.payload)
      [] action.type = "UPDATE_SIMULATION_TIME" -> ReduceUpdateSimulationTime(state, action.payload)
      [] action.type = "SET_INTERCEPTOR_TRAJECTORY" -> ReduceSetInterceptorTrajectory(state, action.payload)
      [] action.type = "UPDATE_MISSION_DATA" -> ReduceUpdateMissionData(state, action.payload)
      [] OTHER -> state

NoRnd == <<0, 0, 0>>

(***************************************************************************)
(* State.                                                                  *)
(*   state     the MissionContextState held by useReducer                  *)
(*   interval  the pending setInterval of the simulation-loop effect, with *)
(*             the values its callback closed over (nullable)              *)
(*   now       Date.now()                                                  *)
(*   last      the type of the last store action applied and what the      *)
(*             store was like just before it (history)                     *)
(*   intervalsFired  interval callbacks run since the last Start (history) *)
(***************************************************************************)
VARIABLES state, interval, now, last, intervalsFired,
          apiPc, attempt, lastError, outcomes, delays, settled, apiClock

storeVars == <<state, interval, now, last, intervalsFired>>

\* the summary of the state an action was applied to
Before ==
    [isRunning |-> state.simulationState.isRunning,
     elapsedTime |-> state.simulationState.elapsedTime,
     phase |-> IF state.missionStatus = Null THEN "null"
               ELSE state.missionStatus[1].phase,
     tickPending |-> IF interval = Null THEN FALSE ELSE now >= interval[1].due]

StoreInit ==
    /\ now = 0
    /\ state = initialState(0)
    /\ interval = Null
    /\ last = [type |-> "init",
               before |-> [isRunning |-> FALSE, elapsedTime |-> 0,
                           phase |-> "null", tickPending |-> FALSE]]
    /\ intervalsFired = 0

(***************************************************************************)
(* MissionProvider effects.  React runs them after the render that follows *)
(* a dispatch; a dependency that holds an object changes whenever the      *)
(* reducer stored a new object (statusChanged, depsChanged).               *)
(***************************************************************************)
\* mutant: isRunning is missing from the dependency list, so a change of
\* isRunning alone neither clears nor creates the interval
SimulationLoopEffect_NoRunningDep(old, new, statusChanged, oldInterval, t) ==
    IF \/ old.simulationState.currentTime # new.simulationState.currentTime
       \/ statusChanged
    THEN IF new.simulationState.isRunning
         THEN Some([due |-> t + IntervalPeriod,
                    missionStatus |-> new.missionStatus,
                    currentTime |-> new.simulationState.currentTime])
         ELSE Null
    ELSE oldInterval

\* useEffect(..., [isRunning, currentTime, missionStatus]): cleanup clears
\* the old interval, the body creates a new one only while running
SimulationLoopEffect(old, new, statusChanged, oldInterval, t) ==
    IF \/ old.simulationState.isRunning # new.simulationState.isRunning
       \/ old.simulationState.currentTime # new.simulationState.currentTime
       \/ statusChanged
    THEN IF new.simulationState.isRunning
         THEN Some([due |-> t + IntervalPeriod,
                    missionStatus |-> new.missionStatus,
                    currentTime |-> new.simulationState.currentTime])
         ELSE Null
    ELSE oldInterval

\* mutant: a trajectory that exists is kept, only a missing one is computed
TrajectoryEffect_OnlyFirst(new, depsChanged) ==
    IF depsChanged /\ new.missionData # Null /\ new.interceptorTrajectory = Null
    THEN missionReducer(new,
            [type |-> "SET_INTERCEPTOR_TRAJECTORY",
             payload |-> calculateInterceptTrajectory(
                            new.missionData[1].earthPosition,
                            new.missionData[1].atlasPosition,
                            new.missionConfig.propulsionType)],
            0, NoRnd)
    ELSE new

\* useEffect(..., [missionData, missionConfig])
TrajectoryEffect(new, depsChanged) ==
    IF depsChanged /\ new.missionData # Null
    THEN missionReducer(new,
            [type |-> "SET_INTERCEPTOR_TRAJECTORY",
             payload |-> calculateInterceptTrajectory(
                            new.missionData[1].earthPosition,
                            new.missionData[1].atlasPosition,
                            new.missionConfig.propulsionType)],
            0, NoRnd)
    ELSE new

(***************************************************************************)
(* MissionProvider: the context's action functions.                        *)
(***************************************************************************)
setMissionConfig(config) ==
    LET new == TrajectoryEffect(
                 missionReducer(state, [type |-> "SET_MISSION_CONFIG", payload |-> config],
                                now, NoRnd), TRUE)
    IN /\ state' = new
       /\ interval' = SimulationLoopEffect(state, new, FALSE, interval, now)
       /\ last' = [type |-> "SET_MISSION_CONFIG", before |-> Before]
       /\ UNCHANGED <<now, intervalsFired>>

startSimulation ==
    \E rnd \in StartDraws :
        LET new == missionReducer(state, [type |-> "START_SIMULATION"], now, rnd)
        IN /\ state' = new
           /\ interval' = SimulationLoopEffect(state, new, TRUE, interval, now)
           /\ last' = [type |-> "START_SIMULATION", before |-> Before]
           /\ intervalsFired' = 0
           /\ UNCHANGED now

pauseSimulation ==
    LET new == missionReducer(state, [type |-> "PAUSE_SIMULATION"], now, NoRnd)
    IN /\ state' = new
       /\ interval' = SimulationLoopEffect(state, new, FALSE, interval, now)
       /\ last' = [type |-> "PAUSE_SIMULATION", before |-> Before]
       /\ UNCHANGED <<now, intervalsFired>>

resetSimulation ==
    LET new == missionReducer(state, [type |-> "RESET_SIMULATION"], now, NoRnd)
    IN /\ state' = new
       /\ interval' = SimulationLoopEffect(state, new, state.missionStatus # Null,
                                            interval, now)
       /\ last' = [type |-> "RESET_SIMULATION", before |-> Before]
       /\ UNCHANGED <<now, intervalsFired>>

updateMissionStatus(status) ==
    LET new == missionReducer(state, [type |-> "UPDATE_MISSION_STATUS", payload |-> status],
                              now, NoRnd)
    IN /\ state' = new
       /\ interval' = SimulationLoopEffect(state, new, TRUE, interval, now)
       /\ last' = [type |-> "UPDATE_MISSION_STATUS", before |-> Before]
       /\ UNCHANGED <<now, intervalsFired>>

updateAtlasPosition(position) ==
    LET data == [currentTime |-> state.simulationState.currentTime,
                 atlasPosition |-> position,
                 earthPosition |-> IF state.missionData # Null
                                   THEN state.missionData[1].earthPosition
                                   ELSE <<30, 0, 0>>]
        new == TrajectoryEffect(
                 missionReducer(state, [type |-> "UPDATE_MISSION_DATA", payload |-> Some(data)],
                                now, NoRnd), TRUE)
    IN /\ state' = new
       /\ interval' = SimulationLoopEffect(state, new, FALSE, interval, now)
       /\ last' = [type |-> "UPDATE_MISSION_DATA", before |-> Before]
       /\ UNCHANGED <<now, intervalsFired>>

(***************************************************************************)
(* The callback of the simulation-loop interval.  It reads the state its   *)
(* effect closed over and dispatches UPDATE_MISSION_STATUS; the dispatch   *)
(* changes missionStatus, so the effect replaces the interval.             *)
(***************************************************************************)
\* mutant: a tick also moves the mission on to its next phase
TickStatus_NextPhase(status, elapsedSeconds, r1, r2) ==
    [status EXCEPT
        !.phase = "CRUISE",
        !.missionElapsed = formatTime(elapsedSeconds),
        !.velocity = Max(0, status.velocity - RandomTimes(r1, 100)),
        !.distanceToTarget = Max(0, status.distanceToTarget - RandomTimes(r2, 1000000)),
        !.fuelRemaining = Max(0, status.fuelRemaining - FuelPerTick)]

\* mutant: fuelRemaining is not floored (no Math.max(0, ...))
TickStatus_NoFloor(status, elapsedSeconds, r1, r2) ==
    [status EXCEPT
        !.missionElapsed = formatTime(elapsedSeconds),
        !.velocity = Max(0, status.velocity - RandomTimes(r1, 100)),
        !.distanceToTarget = Max(0, status.distanceToTarget - RandomTimes(r2, 1000000)),
        !.fuelRemaining = status.fuelRemaining - FuelPerTick]

TickStatus(status, elapsedSeconds, r1, r2) ==
    [status EXCEPT
        !.missionElapsed = formatTime(elapsedSeconds),
        !.velocity = Max(0, status.velocity - RandomTimes(r1, 100)),
        !.distanceToTarget = Max(0, status.distanceToTarget - RandomTimes(r2, 1000000)),
        !.fuelRemaining = Max(0, status.fuelRemaining - FuelPerTick)]

IntervalCallback ==
    /\ interval # Null
    /\ now >= interval[1].due
    /\ LET closure == interval[1]
           elapsedSeconds == (now - closure.currentTime) \div Second
       IN IF closure.missionStatus # Null
          THEN \E rnd \in TickDraws :
                 LET new == missionReducer(state,
                              [type |-> "UPDATE_MISSION_STATUS",
                               payload |-> TickStatus(closure.missionStatus[1],
                                                      elapsedSeconds, rnd[1], rnd[2])],
                              now, NoRnd)
                 IN /\ state' = new
                    /\ interval' = SimulationLoopEffect(state, new, TRUE, interval, now)
          ELSE /\ state' = state
               /\ interval' = Some([closure EXCEPT !.due = closure.due + IntervalPeriod])
    /\ last' = [type |-> "tick", before |-> Before]
    /\ intervalsFired' = intervalsFired + 1
    /\ UNCHANGED now

\* time passes: Date.now() grows, up to the horizon
AdvanceClockTo(maxSteps) ==
    /\ now < maxSteps * ClockStep
    /\ now' = now + ClockStep
    /\ UNCHANGED <<state, interval, last, intervalsFired>>

AdvanceClock == AdvanceClockTo(MaxClockSteps)

(***************************************************************************)
(* missionReducer under every MissionAction: the store's state machine,    *)
(* whoever dispatches.                                                     *)
(***************************************************************************)
Dispatch(action, rnd) ==
    /\ state' = missionReducer(state, action, now, rnd)
    /\ last' = [type |-> action.type, before |-> Before]
    /\ UNCHANGED <<interval, now, intervalsFired>>

TrajectoryPayloads ==
    {calculateInterceptTrajectory(<<30, 0, 0>>, <<0, 12, -6>>, "ion")}

MissionDataPayloads ==
    {Null, Some([currentTime |-> 0, atlasPosition |-> <<0, 12, -6>>,
                 earthPosition |-> <<30, 0, 0>>])}

DispatchSetMissionConfig ==
    \E c \in MissionConfigs : Dispatch([type |-> "SET_MISSION_CONFIG", payload |-> c], NoRnd)

DispatchStartSimulation ==
    \E rnd \in StartDraws : Dispatch([type |-> "START_SIMULATION"], rnd)

DispatchPauseSimulation == Dispatch([type |-> "PAUSE_SIMULATION"], NoRnd)

DispatchResetSimulation == Dispatch([type |-> "RESET_SIMULATION"], NoRnd)

DispatchUpdateMissionStatus ==
    \E st \in ExternalStatuses :
        Dispatch([type |-> "UPDATE_MISSION_STATUS", payload |-> st], NoRnd)

DispatchUpdateSimulationTime ==
    /\ state.simulationState.elapsedTime < MaxElapsed
    /\ Dispatch([type |-> "UPDATE_SIMULATION_TIME", payload |-> now], NoRnd)

DispatchSetInterceptorTrajectory ==
    \E tr \in TrajectoryPayloads :
        Dispatch([type |-> "SET_INTERCEPTOR_TRAJECTORY", payload |-> tr], NoRnd)

DispatchUpdateMissionData ==
    \E d \in MissionDataPayloads :
        Dispatch([type |-> "UPDATE_MISSION_DATA", payload |-> d], NoRnd)

(***************************************************************************)
(* components/MissionInterface: the configuration panel.  Every input is   *)
(* controlled by the stored config; a change event is handled against the  *)
(* config of the current render, and the store re-renders the panel before *)
(* the next event is delivered.                                            *)
(***************************************************************************)
\* payloadOptions, in the order the panel lists them
payloadOptions == <<"camera", "spectrometer", "probe">>

\* array.includes(x)
ArrayIncludes(array, x) == \E i \in 1 .. Len(array) : array[i] = x

\* values the user can give to the other inputs of the panel
LaunchWindowInputs == {0, 40 * Day}
TrajectoryTypes == {"hohmann", "bi-elliptic", "gravity-assist"}

\* { ...missionConfig, ...updates }
handleConfigChange(updates) ==
    setMissionConfig([f \in DOMAIN state.missionConfig |->
                         IF f \in DOMAIN updates THEN updates[f]
                         ELSE state.missionConfig[f]])

\* mutant: the new payload is built from e.target.checked being the value
\* the box was rendered with, not the value after the click
PayloadAfterToggle_RenderedChecked(payload, option) ==
    IF ArrayIncludes(payload, option)
    THEN Append(payload, option)
    ELSE SelectSeq(payload, LAMBDA p : p # option)

\* the checkbox onChange: the box is rendered with checked = includes, the
\* click flips it, and e.target.checked is the flipped value
PayloadAfterToggle(payload, option) ==
    LET rendered == ArrayIncludes(payload, option)
        checked == ~rendered
    IN IF checked
       THEN Append(payload, option)
       ELSE SelectSeq(payload, LAMBDA p : p # option)

TogglePayload ==
    \E i \in 1 .. Len(payloadOptions) :
        handleConfigChange(
            [payload |-> PayloadAfterToggle(state.missionConfig.payload,
                                            payloadOptions[i])])

ChangeLaunchWindow ==
    \E w \in LaunchWindowInputs : handleConfigChange([launchWindow |-> w])

ChangePropulsionType ==
    \E p \in {"chemical", "ion", "nuclear"} :
        handleConfigChange([propulsionType |-> p])

ChangeTrajectoryType ==
    \E t \in TrajectoryTypes : handleConfigChange([trajectoryType |-> t])

(***************************************************************************)
(* services/api: RETRY_CONFIG, getRetryDelay, isRetryableError,            *)
(* apiRequest, ApiClient.request.  Times here are in milliseconds.         *)
(***************************************************************************)
\* mutant: one retry more
maxRetries_OneMore == 3 + 1

maxRetries == 3
baseDelay == 1000
maxDelay == 10000

RECURSIVE Pow2(_)
Pow2(n) == IF n = 0 THEN 1 ELSE 2 * Pow2(n - 1)

\* mutant: linear instead of exponential backoff
getRetryDelay_Linear(n) == Min(baseDelay * (n + 1), maxDelay)

getRetryDelay(n) == Min(baseDelay * Pow2(n), maxDelay)

\* String.prototype.includes
Includes(s, sub) ==
    \E i \in 1 .. (Len(s) - Len(sub) + 1) : SubSeq(s, i, i + Len(sub) - 1) = sub

\* An error value: its class, its message and its status property
\* (status = -1 when the property is undefined).
NoStatus == 0 - 1

isRetryableError(error) ==
    IF error.class = "TypeError" /\ Includes(error.message, "fetch") THEN TRUE
    ELSE IF error.status >= 500 /\ error.status < 600 THEN TRUE
    ELSE IF error.status = 429 THEN TRUE
    ELSE FALSE

\* What one fetch attempt can come to: a response that is ok with a body
\* that parses or does not, a response that is not ok, or a rejection of
\* fetch itself (a TypeError whose message is the browser's).
HttpErrorStatuses == {400, 404, 429, 500, 503}
NetworkErrorMessages == {"Failed to fetch", "Load failed"}

FetchOutcomes ==
    {[kind |-> "ok", parses |-> TRUE], [kind |-> "ok", parses |-> FALSE]}
    \cup {[kind |-> "http", status |-> st] : st \in HttpErrorStatuses}
    \cup {[kind |-> "network", message |-> m] : m \in NetworkErrorMessages}

\* the value thrown inside the try block for a failed attempt
AttemptError(outcome) ==
    IF outcome.kind = "http"
    THEN [class |-> "Error",
          message |-> "API request failed: " \o ToString(outcome.status),
          status |-> outcome.status]
    ELSE [class |-> "TypeError", message |-> outcome.message, status |-> NoStatus]

\* the rejection of response.json() returned by apiRequest
ParseError ==
    [class |-> "SyntaxError", message |-> "Unexpected token", status |-> NoStatus]

\* mutant: no catch, the rejection of apiRequest reaches the caller
request_NoCatch(result, t) ==
    IF result.resolved
    THEN [thrown |-> FALSE, success |-> TRUE, data |-> Some(result.data),
          error |-> Null, timestamp |-> t]
    ELSE [thrown |-> TRUE, success |-> FALSE, data |-> Null,
          error |-> Null, timestamp |-> t]

\* ApiClient.request: the try / catch around await apiRequest.
\* outcome of apiRequest: [resolved |-> TRUE, data] or [resolved |-> FALSE, error]
request(result, t) ==
    IF result.resolved
    THEN [thrown |-> FALSE, success |-> TRUE, data |-> Some(result.data),
          error |-> Null, timestamp |-> t]
    ELSE [thrown |-> FALSE, success |-> FALSE, data |-> Null,
          error |-> Some(result.error.message), timestamp |-> t]

\* the catch block of apiRequest: TRUE when the loop goes on to another attempt
RetryAfter(n, error) == ~(n = maxRetries \/ ~isRetryableError(error))

FetchDurations == {0, 40}

apiVars == <<apiPc, attempt, lastError, outcomes, delays, settled, apiClock>>

ApiInit ==
    /\ apiPc = "idle"
    /\ attempt = 0
    /\ lastError = Null
    /\ outcomes = <<>>
    /\ delays = <<>>
    /\ settled = Null
    /\ apiClock = 0

\* a caller invokes one of the ApiClient methods
ApiCall ==
    /\ apiPc = "idle"
    /\ apiPc' = "fetch"
    /\ UNCHANGED <<attempt, lastError, outcomes, delays, settled, apiClock>>

\* one iteration of the for loop, up to the return, the break or the sleep
ApiAttempt ==
    /\ apiPc = "fetch"
    /\ \E outcome \in FetchOutcomes, d \in FetchDurations :
         /\ apiClock' = apiClock + d
         /\ outcomes' = Append(outcomes, outcome)
         /\ IF outcome.kind = "ok"
            THEN /\ settled' = Some(request(
                        IF outcome.parses
                        THEN [resolved |-> TRUE, data |-> "json"]
                        ELSE [resolved |-> FALSE, error |-> ParseError],
                        apiClock'))
                 /\ apiPc' = "done"
                 /\ UNCHANGED <<attempt, lastError, delays>>
            ELSE LET error == AttemptError(outcome)
                 IN /\ lastError' = Some(error)
                    /\ IF RetryAfter(attempt, error)
                       THEN /\ delays' = Append(delays, getRetryDelay(attempt))
                            /\ apiPc' = "sleep"
                            /\ UNCHANGED <<attempt, settled>>
                       ELSE /\ settled' = Some(request(
                                   [resolved |-> FALSE, error |-> error], apiClock'))
                            /\ apiPc' = "done"
                            /\ UNCHANGED <<attempt, delays>>

\* await sleep(delay) returns; the loop header runs attempt++ and tests
\* attempt <= maxRetries; past the loop comes throw lastError
ApiWake ==
    /\ apiPc = "sleep"
    /\ apiClock' = apiClock + delays[Len(delays)]
    /\ attempt' = attempt + 1
    /\ IF attempt' <= maxRetries
       THEN /\ apiPc' = "fetch"
            /\ UNCHANGED settled
       ELSE /\ apiPc' = "done"
            /\ settled' = Some(request([resolved |-> FALSE, error |-> lastError[1]],
                                       apiClock'))
    /\ UNCHANGED <<lastError, outcomes, delays>>

(***************************************************************************)
(* SocketService: the push-channel singleton.                              *)
(*                                                                         *)
(*   socket         the socket.io socket made by connect(): whether it is  *)
(*                  connected, whether it is open (connecting or allowed   *)
(*                  to reconnect), the packets socket.io holds back while  *)
(*                  it is not connected, and whether a subscription was    *)
(*                  ever requested while it was not connected (history)    *)
(*   listeners      the three listener arrays                              *)
(*   registrations  every on...() call so far and whether the handle it    *)
(*                  returned has been called (history)                     *)
(*   socketStep     the last SocketService step: the listener array it     *)
(*                  notified ("none" if none) and, in order, the listener  *)
(*                  calls it made and the packets it put on the wire       *)
(***************************************************************************)
VARIABLES socket, listeners, registrations, socketStep

socketVars == <<socket, listeners, registrations, socketStep>>

ListenerArrays ==
    {"positionUpdateListeners", "connectionListeners", "dataSourceListeners"}

Callbacks == {"f", "g"}

SocketInit ==
    /\ socket = [connected |-> FALSE, open |-> TRUE, sendBuffer |-> <<>>,
                 askedWhileDown |-> FALSE]
    /\ listeners = [positionUpdateListeners |-> <<>>,
                    connectionListeners |-> <<>>,
                    dataSourceListeners |-> <<>>]
    /\ registrations = <<>>
    /\ socketStep = [op |-> "constructor", notified |-> "none", trace |-> <<>>]

\* array.forEach(listener => listener(arg)): the calls made, in order
notifyListeners(array, arg) ==
    [i \in 1 .. Len(listeners[array]) |-> <<"call", array, listeners[array][i], arg>>]

notifyPositionListeners(positions) ==
    notifyListeners("positionUpdateListeners", positions)

notifyConnectionListeners(connected) ==
    notifyListeners("connectionListeners", connected)

notifyDataSourceListeners(source) ==
    notifyListeners("dataSourceListeners", source)

\* socket.emit(message): a connected socket sends the packet, any other one
\* holds it back until it connects
Emit(sock, message) ==
    IF sock.connected
    THEN [socket |-> sock, trace |-> << <<"emit", message>> >>]
    ELSE [socket |-> [sock EXCEPT !.sendBuffer = Append(@, message)],
          trace |-> <<>>]

\* mutant: the subscription is emitted whatever the socket's state
subscribeToPositionUpdates_NoGuard(sock) ==
    Emit(sock, "subscribe_position_updates")

subscribeToPositionUpdates(sock) ==
    IF sock.connected THEN Emit(sock, "subscribe_position_updates")
    ELSE [socket |-> sock, trace |-> <<>>]

unsubscribeFromPositionUpdates(sock) ==
    IF sock.connected THEN Emit(sock, "unsubscribe_position_updates")
    ELSE [socket |-> sock, trace |-> <<>>]

updateMissionConfig(sock) ==
    IF sock.connected THEN Emit(sock, "update-mission-config")
    ELSE [socket |-> sock, trace |-> <<>>]

\* on...(callback): push the callback, return the handle that removes it
On(array, callback) ==
    /\ Len(registrations) < MaxRegistrations
    /\ listeners' = [listeners EXCEPT ![array] = Append(@, callback)]
    /\ registrations' = Append(registrations,
                               [array |-> array, callback |-> callback,
                                unregistered |-> FALSE])
    /\ socketStep' = [op |-> "on", notified |-> "none", trace |-> <<>>]
    /\ UNCHANGED socket

onPositionUpdate == \E cb \in Callbacks : On("positionUpdateListeners", cb)

onConnectionChange == \E cb \in Callbacks : On("connectionListeners", cb)

onDataSourceChange == \E cb \in Callbacks : On("dataSourceListeners", cb)

\* the handle returned by the r-th registration is called
Unregister ==
    \E r \in DOMAIN registrations :
        LET reg == registrations[r]
            Other(cb) == cb # reg.callback
        IN /\ listeners' = [listeners EXCEPT
                                ![reg.array] = SelectSeq(@, Other)]
           /\ registrations' = [registrations EXCEPT ![r].unregistered = TRUE]
           /\ socketStep' = [op |-> "unregister", notified |-> "none",
                            trace |-> <<>>]
           /\ UNCHANGED socket

\* the socket's 'connect' event: socket.io marks the socket connected and
\* sends what it held back, then the handler runs
SocketConnect ==
    /\ socket.open /\ ~socket.connected
    /\ LET flushed == [i \in 1 .. Len(socket.sendBuffer) |->
                           <<"emit", socket.sendBuffer[i]>>]
           opened == [socket EXCEPT !.connected = TRUE, !.sendBuffer = <<>>]
           notified == notifyConnectionListeners("true")
           subscribed == subscribeToPositionUpdates(opened)
       IN /\ socket' = subscribed.socket
          /\ socketStep' = [op |-> "connect",
                            notified |-> "connectionListeners",
                            trace |-> flushed \o notified \o subscribed.trace]
    /\ UNCHANGED <<listeners, registrations>>

\* the socket's 'disconnect' event after the transport or the server closed
\* the connection; socket.io goes on trying to reconnect
SocketDisconnect ==
    /\ socket.connected
    /\ socket' = [socket EXCEPT !.connected = FALSE]
    /\ socketStep' = [op |-> "disconnect",
                      notified |-> "connectionListeners",
                      trace |-> notifyConnectionListeners("false")]
    /\ UNCHANGED <<listeners, registrations>>

SocketPositionUpdate ==
    /\ socket.connected
    /\ socketStep' = [op |-> "position_update",
                      notified |-> "positionUpdateListeners",
                      trace |-> notifyPositionListeners("positions")]
    /\ UNCHANGED <<socket, listeners, registrations>>

SocketDataSourceChange ==
    /\ socket.connected
    /\ \E source \in {"nasa_live", "calculated_fallback"} :
           socketStep' = [op |-> "data_source_change",
                          notified |-> "dataSourceListeners",
                          trace |-> notifyDataSourceListeners(source)]
    /\ UNCHANGED <<socket, listeners, registrations>>

\* disconnect(): socket.disconnect() closes the socket; a connected socket
\* fires 'disconnect' on the spot
ServiceDisconnect ==
    /\ socket' = [socket EXCEPT !.connected = FALSE, !.open = FALSE]
    /\ socketStep' = [op |-> "disconnect()",
                      notified |-> IF socket.connected
                                   THEN "connectionListeners" ELSE "none",
                      trace |-> IF socket.connected
                                THEN notifyConnectionListeners("false")
                                ELSE <<>>]
    /\ UNCHANGED <<listeners, registrations>>

\* reconnect(): socket.connect() opens a socket that is not connected
ServiceReconnect ==
    /\ socket' = [socket EXCEPT !.open = TRUE]
    /\ socketStep' = [op |-> "reconnect()", notified |-> "none", trace |-> <<>>]
    /\ UNCHANGED <<listeners, registrations>>

ServiceCall(op, result) ==
    /\ Len(socket.sendBuffer) < MaxBuffered
    /\ socket' = result.socket
    /\ socketStep' = [op |-> op, notified |-> "none", trace |-> result.trace]
    /\ UNCHANGED <<listeners, registrations>>

ServiceSubscribe ==
    ServiceCall("subscribeToPositionUpdates",
                subscribeToPositionUpdates(
                    [socket EXCEPT !.askedWhileDown = @ \/ ~socket.connected]))

ServiceUnsubscribe ==
    ServiceCall("unsubscribeFromPositionUpdates",
                unsubscribeFromPositionUpdates(socket))

ServiceUpdateMissionConfig ==
    ServiceCall("updateMissionConfig", updateMissionConfig(socket))

(***************************************************************************)
(* useWebSocket: one instance of the hook, from its mount effect on.       *)
(*                                                                         *)
(*   hook      whether the owning component is mounted, the hook's React   *)
(*             state (socket: the index of a socket or null, isConnected,  *)
(*             error), and whether connect() has run since the unmount     *)
(*             (history)                                                   *)
(*   sockets   every socket connect() has made: connected or not, and      *)
(*             closed by socket.disconnect() or not                        *)
(*   reconnectionTimeoutRef   true while the reconnection timeout is       *)
(*             pending                                                     *)
(*                                                                         *)
(* autoConnect and reconnection have their default, true.  Setting state   *)
(* after the unmount does nothing.                                         *)
(***************************************************************************)
VARIABLES hook, sockets, reconnectionTimeoutRef

hookVars == <<hook, sockets, reconnectionTimeoutRef>>

NewSocket == [connected |-> FALSE, closed |-> FALSE]

\* useState after the unmount keeps what it held
SetHook(next) == IF hook.mounted THEN next ELSE hook

\* connect(): io(...), the handlers, setSocket(newSocket)
Connect(h) ==
    /\ Len(sockets) < MaxSockets
    /\ sockets' = Append(sockets, NewSocket)
    /\ hook' = IF h.mounted
               THEN [h EXCEPT !.socket = Some(Len(sockets) + 1)]
               ELSE [h EXCEPT !.connectedAfterUnmount = TRUE]

\* the hook as its mount effect leaves it: connect() has made socket i
MountedHook(i) ==
    [mounted |-> TRUE, socket |-> Some(i), isConnected |-> FALSE,
     error |-> FALSE, connectedAfterUnmount |-> FALSE]

HookInit ==
    /\ hook = MountedHook(1)
    /\ sockets = <<NewSocket>>
    /\ reconnectionTimeoutRef = FALSE

\* 'connect' on socket i, the first time or after socket.io reconnected it
HookSocketConnect ==
    \E i \in DOMAIN sockets :
        /\ ~sockets[i].closed /\ ~sockets[i].connected
        /\ sockets' = [sockets EXCEPT ![i].connected = TRUE]
        /\ hook' = SetHook([hook EXCEPT !.isConnected = TRUE, !.error = FALSE])
        /\ UNCHANGED reconnectionTimeoutRef

\* 'disconnect' on socket i for a reason other than 'io client disconnect'
HookSocketDisconnect ==
    \E i \in DOMAIN sockets :
        /\ sockets[i].connected
        /\ sockets' = [sockets EXCEPT ![i].connected = FALSE]
        /\ hook' = SetHook([hook EXCEPT !.isConnected = FALSE])
        /\ reconnectionTimeoutRef' = TRUE

\* 'connect_error' on socket i
HookSocketConnectError ==
    \E i \in DOMAIN sockets :
        /\ ~sockets[i].closed /\ ~sockets[i].connected
        /\ hook' = SetHook([hook EXCEPT !.isConnected = FALSE, !.error = TRUE])
        /\ UNCHANGED <<sockets, reconnectionTimeoutRef>>

\* the reconnection timeout fires: connect()
HookTimeout ==
    /\ reconnectionTimeoutRef
    /\ reconnectionTimeoutRef' = FALSE
    /\ Connect(hook)

\* disconnect() as closed over by a render whose socket state is held:
\* the sockets and the React state it leaves (the timeout is cleared by
\* the caller's frame)
disconnect(held) ==
    IF held = Null
    THEN [sockets |-> sockets, hook |-> hook]
    ELSE [sockets |-> [sockets EXCEPT ![held[1]] =
                           [connected |-> FALSE, closed |-> TRUE]],
          hook |-> SetHook([hook EXCEPT !.socket = Null,
                                        !.isConnected = FALSE])]

\* the connect and disconnect the hook returns, called by its owner
HookConnect ==
    /\ hook.mounted
    /\ Connect(hook)
    /\ UNCHANGED reconnectionTimeoutRef

HookDisconnect ==
    /\ hook.mounted
    /\ reconnectionTimeoutRef' = FALSE
    /\ sockets' = disconnect(hook.socket).sockets
    /\ hook' = disconnect(hook.socket).hook

\* the mount effect's cleanup calls the disconnect of the first render,
\* where socket is the initial null
UnmountCleanup == disconnect(Null)

\* what unmounting the owner does to the hook
UnmountHook ==
    /\ hook.mounted
    /\ reconnectionTimeoutRef' = FALSE
    /\ sockets' = UnmountCleanup.sockets
    /\ hook' = [UnmountCleanup.hook EXCEPT !.mounted = FALSE]

(***************************************************************************)
(* SolarSystemVisualization: the scene component's polling and the path    *)
(* of the target object.  Lengths are in tenths of an AU, scene            *)
(* coordinates in tenths of a scene unit.                                  *)
(***************************************************************************)
scaleAU == 30
verticalScale == 6

mapToScene(x, y, z) == <<x * scaleAU, z * scaleAU * verticalScale, (0 - y) * scaleAU>>

\* Vector3.distanceToSquared
distanceToSquared(a, b) ==
    (a[1] - b[1]) * (a[1] - b[1]) + (a[2] - b[2]) * (a[2] - b[2])
        + (a[3] - b[3]) * (a[3] - b[3])

\* the samples of the parabola with perihelion distance q in an orbital
\* plane with angles i = omega = Omega = 0, s = 0 .. PathSteps; the samples
\* are spaced evenly in tan(nu / 2), where r cos(nu) = q (1 - t^2) and
\* r sin(nu) = 2 q t
ParabolaPoints(q) ==
    [s \in 1 .. (PathSteps + 1) |->
        LET t == (s - 1) - (PathSteps \div 2)
        IN mapToScene(q * (1 - t * t), 2 * q * t, 0)]

\* array.slice(from, to), indices from 0, to excluded
Slice(array, from, to) == SubSeq(array, from + 1, Min(to, Len(array)))

\* the index of the sample closest to posVec, the first of them on a tie
SplitIndex(points, posVec) ==
    IF points = <<>> THEN 0
    ELSE CHOOSE idx \in 0 .. (Len(points) - 1) :
            \A j \in 0 .. (Len(points) - 1) :
                LET d == distanceToSquared(points[idx + 1], posVec)
                    dj == distanceToSquared(points[j + 1], posVec)
                IN IF j < idx THEN dj > d ELSE dj >= d

SplitPath(points, posVec) ==
    LET splitIndex == SplitIndex(points, posVec)
    IN [past |-> Slice(points, 0, Max(1, splitIndex)),
        future |-> Slice(points, splitIndex, Len(points))]

\* the fallback path drawn while no path exists
FallbackPath ==
    LET points == ParabolaPoints(5)
        splitIndex == Len(points) \div 2
    IN [past |-> Slice(points, 0, splitIndex),
        future |-> Slice(points, splitIndex, Len(points))]

(***************************************************************************)
(*   scene         whether the component is mounted; per polling effect    *)
(*                 its interval, its isMounted flag and its requests in    *)
(*                 flight, oldest first, each with whether a request sent  *)
(*                 after it has already brought data (history), and        *)
(*                 whether that is so of the request whose data the state  *)
(*                 holds (history); whether a successful response arrived after    *)
(*                 the unmount and whether a state setter was called       *)
(*                 after it (history); the heliocentric position that the  *)
(*                 last setAtlasPosition call was made for (history)       *)
(*   sceneState    the component's useState values                         *)
(*   sceneAtUnmount  sceneState as it was at the unmount (history)         *)
(***************************************************************************)
VARIABLES scene, sceneState, sceneAtUnmount

sceneVars == <<scene, sceneState, sceneAtUnmount>>

Effects == {"planetary", "atlas"}

\* planetaryData: the names of the planets drawn
planetaryData ==
    {"Mercury", "Venus", "Earth", "Mars", "Jupiter", "Saturn", "Uranus", "Neptune"}

\* a Record<string, [x, y, z]> of heliocentric positions, as the lookups
\* record[planet.name] see it: a position or nothing for every planet
NoPositions == [name \in planetaryData |-> Null]
AllPositions ==
    [name \in planetaryData |->
        CASE name = "Earth" -> Some(<<10, 0, 0>>)
          [] name = "Mars" -> Some(<<0 - 12, 9, 1>>)
          [] OTHER -> Some(<<3, 0 - 4, 0 - 2>>)]
InnerPositions ==
    [name \in planetaryData |->
        IF name \in {"Mercury", "Venus", "Earth", "Mars"}
        THEN AllPositions[name] ELSE Null]

\* the heliocentric x, y, z the fallback calculation arrives at from
\* FALLBACK_ELEMENTS and the time
FallbackHeliocentric ==
    [name \in planetaryData |->
        IF name = "Earth" THEN <<0 - 6, 8, 0>> ELSE <<20, 15, 0 - 3>>]

\* celestialService.getPlanetaryPositions resolves to one of these
PlanetaryResponses ==
    {[success |-> FALSE, data |-> Null],
     [success |-> TRUE, data |-> Some([planets |-> InnerPositions, atlas |-> Null])],
     [success |-> TRUE,
      data |-> Some([planets |-> AllPositions, atlas |-> Some(<<10, 20, 1>>)])]}

\* celestialService.getAtlasData resolves to one of these
AtlasResponses ==
    {[success |-> FALSE, data |-> Null],
     [success |-> TRUE,
      data |-> Some([position |-> Null,
                     orbitalElements |-> [i |-> 0, omega |-> 0, Omega |-> 0]])],
     [success |-> TRUE,
      data |-> Some([position |-> Some(<<0 - 24, 18, 0>>),
                     orbitalElements |-> [i |-> 0, omega |-> 0, Omega |-> 0]])],
     [success |-> TRUE,
      data |-> Some([position |-> Some(<<0 - 24, 18, 2>>),
                     orbitalElements |-> [i |-> 0, omega |-> 0, Omega |-> 0]])]}

\* the component as its mount leaves it: both effects have fetched at once
\* and started their interval, the fallback path is drawn
MountedScene ==
    [mounted |-> TRUE,
     interval |-> [e \in Effects |-> TRUE],
     isMounted |-> [e \in Effects |-> TRUE],
     inFlight |-> [e \in Effects |-> <<FALSE>>],
     lateResponse |-> FALSE, lateSetter |-> FALSE,
     placedFrom |-> Null,
     shownOvertaken |-> [e \in Effects |-> FALSE]]

MountedSceneState(t) ==
    [livePlanetaryPositions |-> NoPositions, lastUpdateTime |-> t,
     atlasPosition |-> Null, lastAtlasPosition |-> Null,
     atlasElements |-> Null,
     atlasPathPast |-> FallbackPath.past,
     atlasPathFuture |-> FallbackPath.future]

SceneInit ==
    /\ scene = MountedScene
    /\ sceneState = MountedSceneState(0)
    /\ sceneAtUnmount = Null

\* the planets memo: a planet is placed from its live position, or from
\* the fallback calculation where the live positions have none
planets(s) ==
    [name \in planetaryData |->
        LET livePosition == s.livePlanetaryPositions[name]
            heliocentric == IF livePosition # Null THEN livePosition[1]
                            ELSE FallbackHeliocentric[name]
        IN mapToScene(heliocentric[1], heliocentric[2], heliocentric[3])]

\* the effect on [atlasElements, atlasPosition]: the path is rebuilt and
\* split at the sample closest to the position
PathEffect(s) ==
    IF s.atlasElements = Null \/ s.atlasPosition = Null THEN s
    ELSE LET split == SplitPath(ParabolaPoints(3), s.atlasPosition[1])
         IN [s EXCEPT !.atlasPathPast = split.past,
                      !.atlasPathFuture = split.future]

\* the state setters called for a getPlanetaryPositions response; the
\* effect closed over atlasPosition = null, so lastAtlasPosition is not set
PlanetarySetters(s, response, t) ==
    LET data == response.data[1]
        live == [s EXCEPT !.livePlanetaryPositions = data.planets,
                          !.lastUpdateTime = t]
    IN IF data.atlas = Null THEN live
       ELSE [live EXCEPT !.atlasPosition =
                Some(mapToScene(data.atlas[1][1], data.atlas[1][2],
                                data.atlas[1][3]))]

\* the state setters called for a getAtlasData response
AtlasSetters(s, response) ==
    LET data == response.data[1]
        placed == IF data.position = Null THEN s
                  ELSE [s EXCEPT !.atlasPosition =
                           Some(<<data.position[1][1] * scaleAU,
                                  data.position[1][3] * scaleAU,
                                  (0 - data.position[1][2]) * scaleAU>>)]
    IN [placed EXCEPT !.atlasElements = Some(data.orbitalElements)]

\* isMounted && response.success && response.data
Accepts(e, response) ==
    scene.isMounted[e] /\ response.success /\ response.data # Null

\* one poll of effect e goes out: the interval fired
Poll(e) ==
    /\ scene.interval[e]
    /\ Len(scene.inFlight[e]) < MaxInFlight
    /\ scene' = [scene EXCEPT !.inFlight[e] = Append(@, FALSE)]
    /\ UNCHANGED <<sceneState, sceneAtUnmount>>

\* the requests left in flight once request number i has resolved
Settle(requests, i, broughtData) ==
    [k \in 1 .. (Len(requests) - 1) |->
        IF k < i THEN requests[k] \/ broughtData ELSE requests[k + 1]]

\* a request of effect e resolves, whichever of those in flight it is;
\* setters called after the unmount leave the state as it is.  position is
\* the position of the tracked object in the response, if it has one
Resolve(e, response, set, position) ==
    \E i \in 1 .. Len(scene.inFlight[e]) :
    /\ scene' = [scene EXCEPT
                    !.inFlight[e] =
                        Settle(@, i, Accepts(e, response) /\ scene.mounted),
                    !.shownOvertaken[e] =
                        IF Accepts(e, response) /\ scene.mounted
                        THEN scene.inFlight[e][i] ELSE @,
                    !.placedFrom = IF Accepts(e, response) /\ scene.mounted
                                      /\ position # Null
                                   THEN position ELSE @,
                    !.lateResponse = @ \/ (~scene.mounted /\ response.success
                                             /\ response.data # Null),
                    !.lateSetter = @ \/ (~scene.mounted /\ Accepts(e, response))]
    /\ sceneState' = IF Accepts(e, response) /\ scene.mounted
                     THEN PathEffect(set)
                     ELSE sceneState
    /\ UNCHANGED sceneAtUnmount

ResolvePlanetaryPositions ==
    \E response \in PlanetaryResponses :
        Resolve("planetary", response,
                IF response.data = Null THEN sceneState
                ELSE PlanetarySetters(sceneState, response, now),
                IF response.data = Null THEN Null ELSE response.data[1].atlas)

ResolveAtlasData ==
    \E response \in AtlasResponses :
        Resolve("atlas", response,
                IF response.data = Null THEN sceneState
                ELSE AtlasSetters(sceneState, response),
                IF response.data = Null THEN Null ELSE response.data[1].position)

\* mutant: the cleanups clear the isMounted flags and leave the intervals
PollingCleanup_KeepsIntervals(s) ==
    [s EXCEPT !.isMounted = [e \in Effects |-> FALSE]]

\* the cleanups of the two polling effects
PollingCleanup(s) ==
    [s EXCEPT !.isMounted = [e \in Effects |-> FALSE],
              !.interval = [e \in Effects |-> FALSE]]

\* what unmounting does to the scene component
UnmountScene ==
    /\ scene.mounted
    /\ scene' = [PollingCleanup(scene) EXCEPT !.mounted = FALSE]
    /\ sceneAtUnmount' = Some(sceneState)
    /\ UNCHANGED sceneState

(***************************************************************************)
(* JavaScript numbers, as far as calculateSuccessProbability needs them:   *)
(* a finite number is held in hundredths, and a result beyond FloatMax in  *)
(* magnitude is an infinity, as one beyond Number.MAX_VALUE is.  Within    *)
(* the finite range the arithmetic is exact.                               *)
(***************************************************************************)
Fin(hundredths) == [kind |-> "fin", v |-> hundredths]
Num(n) == Fin(n * 100)
Inf(sign) == [kind |-> "inf", v |-> sign]
NaN == [kind |-> "nan", v |-> 0]

Sign(n) == IF n < 0 THEN 0 - 1 ELSE IF n > 0 THEN 1 ELSE 0

\* the number a finite result is stored as
Overflowing(hundredths) ==
    IF Abs(hundredths) > FloatMax * 100 THEN Inf(Sign(hundredths))
    ELSE Fin(hundredths)

FAbs(a) == IF a.kind = "nan" THEN NaN ELSE [a EXCEPT !.v = Abs(a.v)]

FSub(a, b) ==
    CASE a.kind = "nan" \/ b.kind = "nan" -> NaN
      [] a.kind = "inf" /\ b.kind = "inf" -> IF a.v = b.v THEN NaN ELSE a
      [] a.kind = "inf" -> a
      [] b.kind = "inf" -> Inf(0 - b.v)
      [] OTHER -> Overflowing(a.v - b.v)

FMul(a, b) ==
    CASE a.kind = "nan" \/ b.kind = "nan" -> NaN
      [] a.kind = "inf" \/ b.kind = "inf" ->
            IF a.v = 0 \/ b.v = 0 THEN NaN ELSE Inf(Sign(a.v) * Sign(b.v))
      [] a.v = 0 \/ b.v = 0 -> Fin(0)
      [] Abs(a.v) > (FloatMax * 100 * 100) \div Abs(b.v) ->
            Inf(Sign(a.v) * Sign(b.v))
      [] OTHER -> Fin(Sign(a.v) * Sign(b.v) * ((Abs(a.v) * Abs(b.v)) \div 100))

\* a / b for a finite b > 0 no smaller than 1
FDiv(a, b) ==
    IF a.kind = "fin"
    THEN Fin(Sign(a.v) * ((Abs(a.v) * 100) \div b.v))
    ELSE a

\* a < b, false when either is NaN
FLess(a, b) ==
    CASE a.kind = "nan" \/ b.kind = "nan" -> FALSE
      [] a.kind = "inf" /\ b.kind = "inf" -> a.v < b.v
      [] a.kind = "inf" -> a.v < 0
      [] b.kind = "inf" -> b.v > 0
      [] OTHER -> a.v < b.v

\* Math.min and Math.max: NaN when either argument is NaN
MathMin(a, b) ==
    IF a.kind = "nan" \/ b.kind = "nan" THEN NaN
    ELSE IF FLess(b, a) THEN b ELSE a

MathMax(a, b) ==
    IF a.kind = "nan" \/ b.kind = "nan" THEN NaN
    ELSE IF FLess(a, b) THEN b ELSE a

(***************************************************************************)
(* calculateSuccessProbability.  The distance is given in millions of km,  *)
(* which is what distance / 1000000 makes of it.                           *)
(***************************************************************************)
calculateSuccessProbability(distance, velocity, fuelRemaining, propulsionType) ==
    LET byDistance == FSub(Num(90), MathMin(distance, Num(50)))
        optimalVelocity == IF propulsionType = "chemical" THEN Num(15)
                           ELSE IF propulsionType = "ion" THEN Num(8)
                           ELSE Num(25)
        velocityDiff == FAbs(FSub(velocity, optimalVelocity))
        byVelocity == FSub(byDistance, FMul(velocityDiff, Num(2)))
        baseSuccess == FMul(byVelocity, FDiv(fuelRemaining, Num(100)))
    IN MathMax(MathMin(baseSuccess, Num(95)), Num(5))

PropulsionTypes == {"chemical", "ion", "nuclear"}

\* arguments of a call: distances short of and beyond the cap of 50, speeds
\* at, near and far from the optimal ones, fuel below, in and above 0 .. 100
CalcInputs ==
    [distance : {0 - 1000, 0, 20, 50, 80},
     velocity : {0 - FloatMax, 8, 15, 25, 60, FloatMax},
     fuelRemaining : {0 - 100, 0, 50, 100, FloatMax},
     propulsionType : PropulsionTypes]

Calculate(args) ==
    calculateSuccessProbability(Num(args.distance), Num(args.velocity),
                                Num(args.fuelRemaining), args.propulsionType)

(***************************************************************************)
(* utils/orbitalMechanics: solveKeplerEquation.  Angles and the            *)
(* eccentricity are numbers of the kind above (hundredths); a quotient is  *)
(* rounded to the nearest hundredth, and Math.sin and Math.cos are taken   *)
(* to the same resolution.  The tolerance is the function's third          *)
(* parameter, so a call can name one the resolution can express.           *)
(***************************************************************************)
\* a / b rounded to the nearest hundredth; IEEE 754 for the other cases
FQuot(a, b) ==
    CASE a.kind = "nan" \/ b.kind = "nan" -> NaN
      [] a.kind = "inf" /\ b.kind = "inf" -> NaN
      [] a.kind = "inf" -> Inf(a.v * (IF b.v < 0 THEN 0 - 1 ELSE 1))
      [] b.kind = "inf" -> Fin(0)
      [] b.v = 0 -> IF a.v = 0 THEN NaN ELSE Inf(Sign(a.v))
      [] OTHER ->
            Overflowing(Sign(a.v) * Sign(b.v)
                          * ((Abs(a.v) * 100 + Abs(b.v) \div 2) \div Abs(b.v)))

\* the sine of an angle given in ten-thousandths of a radian, in hundredths:
\* Bhaskara's 16 y (pi - y) / (5 pi^2 - 4 y (pi - y)) on a half turn, which
\* is within 0.002 of the sine
SineOfTurn(tenThousandths) ==
    LET turn == tenThousandths % 62832
        half == IF turn >= 31416 THEN turn - 31416 ELSE turn
        y == half \div 10
        product == y * (3142 - y)
        denominator == (5 * 3142 * 3142 - 4 * product) \div 100
        magnitude == (16 * product + denominator \div 2) \div denominator
    IN IF turn >= 31416 THEN 0 - magnitude ELSE magnitude

\* Math.sin and Math.cos: NaN for NaN and for the infinities
MathSin(a) ==
    IF a.kind = "fin" THEN Fin(SineOfTurn(a.v * 100)) ELSE NaN

MathCos(a) ==
    IF a.kind = "fin" THEN Fin(SineOfTurn(a.v * 100 + 15708)) ELSE NaN

\* E - e * Math.sin(E) - M
KeplerResidual(E, e, M) == FSub(FSub(E, FMul(e, MathSin(E))), M)

\* the state of a call when the loop is first reached
KeplerEntry(M, e, tolerance) ==
    [pc |-> "loop", M |-> M, e |-> e, tolerance |-> tolerance,
     E |-> M, deltaE |-> Num(1), iterations |-> 0]

\* while (Math.abs(deltaE) > tolerance)
KeplerLoopCondition(k) == FLess(k.tolerance, FAbs(k.deltaE))

\* one run of the loop body
KeplerBody(k) ==
    LET f == KeplerResidual(k.E, k.e, k.M)
        df == FSub(Num(1), FMul(k.e, MathCos(k.E)))
        deltaE == FQuot(f, df)
    IN [k EXCEPT !.deltaE = deltaE, !.E = FSub(k.E, deltaE),
                 !.iterations = k.iterations + 1]

\* eccentricities 0 <= e < 1, mean anomalies on both sides of zero and
\* beyond a turn, and the values a degenerate orbit makes of
\* M0 + n * dt (calculateMeanAnomaly with a = 0)
KeplerInputs ==
    {KeplerEntry(M, Fin(e), Fin(t)) :
        M \in {Fin(m) : m \in {0 - 314, 0 - 100, 0, 10, 50, 100, 157, 200,
                               314, 500, 700, 1000, 5000}}
                \cup {Inf(1), Inf(0 - 1), NaN},
        e \in {0, 30, 60, 90},
        t \in {5, 10}}

(***************************************************************************)
(*   calcArgs, calcResult   one call of calculateSuccessProbability: its   *)
(*                          arguments and what it returned (nullable)      *)
(*   pathArgs, pathSplit    one split of a sampled path: the samples and   *)
(*                          the current position, and the two segments     *)
(*                          (nullable)                                     *)
(*   kepler                 one call of solveKeplerEquation: its       *)
(*                          arguments, its locals E and deltaE, the runs   *)
(*                          of the loop body so far, and whether it is in  *)
(*                          the loop or has returned E                     *)
(***************************************************************************)
VARIABLES calcArgs, calcResult, pathArgs, pathSplit, kepler

pureVars == <<calcArgs, calcResult, pathArgs, pathSplit, kepler>>

CalcInit ==
    /\ calcArgs = [distance |-> 0, velocity |-> 8, fuelRemaining |-> 100,
                   propulsionType |-> "ion"]
    /\ calcResult = Null

CalcDraw ==
    /\ calcArgs \in CalcInputs
    /\ calcResult = Null

CalcCall ==
    /\ calcResult = Null
    /\ calcResult' = Some(Calculate(calcArgs))
    /\ UNCHANGED <<calcArgs, pathArgs, pathSplit, kepler>>

\* a sample sequence whose samples move away from the first one
StraightPath == [s \in 1 .. (PathSteps + 1) |-> <<(s - 1) * 10, 0, 0>>]

\* current positions: every sample, and points off the samples
PathPositions(points) ==
    {points[s] : s \in DOMAIN points}
        \cup {<<points[s][1] + 4, points[s][2], points[s][3] + 3>> : s \in DOMAIN points}

PathInputs ==
    {[points |-> points, position |-> position] :
        points \in {StraightPath, ParabolaPoints(3)},
        position \in PathPositions(StraightPath) \cup PathPositions(ParabolaPoints(3))}

PathInit ==
    /\ pathArgs = [points |-> StraightPath, position |-> <<0, 0, 0>>]
    /\ pathSplit = Null

PathDraw ==
    /\ pathArgs \in PathInputs
    /\ pathSplit = Null

PathCall ==
    /\ pathSplit = Null
    /\ pathSplit' = Some(SplitPath(pathArgs.points, pathArgs.position))
    /\ UNCHANGED <<calcArgs, calcResult, pathArgs, kepler>>

KeplerInit == kepler = KeplerEntry(Fin(0), Fin(0), Fin(5))

KeplerDraw == kepler \in KeplerInputs

KeplerIterate ==
    /\ kepler.pc = "loop"
    /\ KeplerLoopCondition(kepler)
    /\ kepler.iterations < MaxIterations
    /\ kepler' = KeplerBody(kepler)
    /\ UNCHANGED <<calcArgs, calcResult, pathArgs, pathSplit>>

KeplerReturn ==
    /\ kepler.pc = "loop"
    /\ ~KeplerLoopCondition(kepler)
    /\ kepler' = [kepler EXCEPT !.pc = "returned"]
    /\ UNCHANGED <<calcArgs, calcResult, pathArgs, pathSplit>>

(***************************************************************************)
(* App: the tree of error boundaries.  React hands an error thrown while   *)
(* rendering to the nearest boundary above the component that threw; the   *)
(* boundary's getDerivedStateFromError sets hasError, its children are     *)
(* unmounted and its fallback is rendered.                                 *)
(*                                                                         *)
(*   boundaries   hasError of the three ErrorBoundary instances            *)
(*   lastFailure  the region whose render failed in the last step, or      *)
(*                "none" (history)                                         *)
(***************************************************************************)
VARIABLES boundaries, lastFailure

boundaryVars == <<boundaries, lastFailure>>

\* a render can fail in the 3D canvas, in the UI overlay, and in the rest
\* of what MissionProvider wraps ("shell")
MajorRegions == {"canvas", "overlay"}

BoundaryInit ==
    /\ boundaries = [app |-> FALSE, canvas |-> FALSE, overlay |-> FALSE]
    /\ lastFailure = "none"

\* mutant: one boundary wraps both regions
EnclosingBoundary_Shared(region) ==
    IF region = "shell" THEN "app" ELSE "canvas"

\* the nearest ErrorBoundary above a region
EnclosingBoundary(region) ==
    CASE region = "canvas" -> "canvas"
      [] region = "overlay" -> "overlay"
      [] OTHER -> "app"

\* a region is rendered while no boundary above it shows its fallback
Rendered(region) ==
    /\ ~boundaries.app
    /\ region \in MajorRegions => ~boundaries[EnclosingBoundary(region)]

\* ErrorBoundary.getDerivedStateFromError; a boundary below the one that
\* caught is unmounted with the rest of its children
getDerivedStateFromError(boundary) ==
    IF boundary = "app"
    THEN [app |-> TRUE, canvas |-> FALSE, overlay |-> FALSE]
    ELSE [boundaries EXCEPT ![boundary] = TRUE]

\* rendering a region throws; what is below the boundary that catches is
\* unmounted: the scene component below the canvas boundary, MissionProvider
\* with its interval and its useWebSocket below the outer one
RenderFailure(region) ==
    LET boundary == EnclosingBoundary(region)
    IN /\ Rendered(region)
       /\ boundaries' = getDerivedStateFromError(boundary)
       /\ lastFailure' = region
       /\ IF boundary \in {"app", "canvas"} /\ scene.mounted
          THEN UnmountScene
          ELSE UNCHANGED sceneVars
       /\ IF boundary = "app"
          THEN /\ UnmountHook
               /\ interval' = Null
               /\ UNCHANGED <<state, now, last, intervalsFired>>
          ELSE UNCHANGED <<storeVars, hookVars>>

\* handleReset of the outer boundary, the one that renders the reset
\* button: its children mount again
handleReset ==
    /\ boundaries.app
    /\ Len(sockets) < MaxSockets
    /\ boundaries' = [app |-> FALSE, canvas |-> FALSE, overlay |-> FALSE]
    /\ lastFailure' = "none"
    /\ state' = initialState(now)
    /\ interval' = Null
    /\ last' = [type |-> "init",
                before |-> [isRunning |-> FALSE, elapsedTime |-> 0,
                            phase |-> "null", tickPending |-> FALSE]]
    /\ intervalsFired' = 0
    /\ UNCHANGED now
    /\ scene' = MountedScene
    /\ sceneState' = MountedSceneState(now)
    /\ sceneAtUnmount' = Null
    /\ sockets' = Append(sockets, NewSocket)
    /\ hook' = MountedHook(Len(sockets) + 1)
    /\ reconnectionTimeoutRef' = FALSE

\* a store operation while MissionProvider is mounted
WhileProvided(operation) ==
    /\ ~boundaries.app
    /\ operation
    /\ lastFailure' = "none"
    /\ UNCHANGED boundaries

(***************************************************************************)
(* Specifications.                                                         *)
(*   Spec          MissionProvider as wired: context functions, interval   *)
(*                 callback, clock                                         *)
(*   ReducerSpec   missionReducer under every MissionAction                *)
(*   ApiSpec       one ApiClient call                                      *)
(*   SocketSpec    the SocketService singleton                             *)
(*   HookSpec      one useWebSocket instance                               *)
(*   SceneSpec     the scene component's polling                           *)
(*   ScoreSpec     START_SIMULATION under every mission config             *)
(*   CalcSpec      one call of calculateSuccessProbability                 *)
(*   PathSpec      one split of a sampled path                             *)
(*   BoundarySpec  App's error boundaries around the mounted store         *)
(***************************************************************************)
vars == <<state, interval, now, last, intervalsFired,
          apiPc, attempt, lastError, outcomes, delays, settled, apiClock,
          socket, listeners, registrations, socketStep,
          hook, sockets, reconnectionTimeoutRef,
          scene, sceneState, sceneAtUnmount,
          calcArgs, calcResult, pathArgs, pathSplit, kepler,
          boundaries, lastFailure>>

exceptStore == <<apiVars, socketVars, hookVars, sceneVars, pureVars, boundaryVars>>
exceptApi == <<storeVars, socketVars, hookVars, sceneVars, pureVars, boundaryVars>>
exceptSocket == <<storeVars, apiVars, hookVars, sceneVars, pureVars, boundaryVars>>
exceptHook == <<storeVars, apiVars, socketVars, sceneVars, pureVars, boundaryVars>>
exceptScene == <<storeVars, apiVars, socketVars, hookVars, pureVars, boundaryVars>>
exceptPure == <<storeVars, apiVars, socketVars, hookVars, sceneVars, boundaryVars>>

Init ==
    StoreInit /\ ApiInit /\ SocketInit /\ HookInit /\ SceneInit /\ CalcInit
        /\ PathInit /\ KeplerInit /\ BoundaryInit

Next ==
    \/ (\E c \in MissionConfigs : setMissionConfig(c)) /\ UNCHANGED exceptStore
    \/ startSimulation /\ UNCHANGED exceptStore
    \/ pauseSimulation /\ UNCHANGED exceptStore
    \/ resetSimulation /\ UNCHANGED exceptStore
    \/ (\E st \in ExternalStatuses : updateMissionStatus(st)) /\ UNCHANGED exceptStore
    \/ (\E p \in Positions : updateAtlasPosition(p)) /\ UNCHANGED exceptStore
    \/ IntervalCallback /\ UNCHANGED exceptStore
    \/ AdvanceClock /\ UNCHANGED exceptStore

Spec == Init /\ [][Next]_vars

ReducerNext ==
    \/ DispatchSetMissionConfig /\ UNCHANGED exceptStore
    \/ DispatchStartSimulation /\ UNCHANGED exceptStore
    \/ DispatchPauseSimulation /\ UNCHANGED exceptStore
    \/ DispatchResetSimulation /\ UNCHANGED exceptStore
    \/ DispatchUpdateMissionStatus /\ UNCHANGED exceptStore
    \/ DispatchUpdateSimulationTime /\ UNCHANGED exceptStore
    \/ DispatchSetInterceptorTrajectory /\ UNCHANGED exceptStore
    \/ DispatchUpdateMissionData /\ UNCHANGED exceptStore
    \/ AdvanceClockTo(MaxReducerClockSteps) /\ UNCHANGED exceptStore

ReducerSpec == Init /\ [][ReducerNext]_vars

ApiNext ==
    \/ ApiCall /\ UNCHANGED exceptApi
    \/ ApiAttempt /\ UNCHANGED exceptApi
    \/ ApiWake /\ UNCHANGED exceptApi

ApiSpec == Init /\ [][ApiNext]_vars

SocketNext ==
    \/ onPositionUpdate /\ UNCHANGED exceptSocket
    \/ onConnectionChange /\ UNCHANGED exceptSocket
    \/ onDataSourceChange /\ UNCHANGED exceptSocket
    \/ Unregister /\ UNCHANGED exceptSocket
    \/ SocketConnect /\ UNCHANGED exceptSocket
    \/ SocketDisconnect /\ UNCHANGED exceptSocket
    \/ SocketPositionUpdate /\ UNCHANGED exceptSocket
    \/ SocketDataSourceChange /\ UNCHANGED exceptSocket
    \/ ServiceDisconnect /\ UNCHANGED exceptSocket
    \/ ServiceReconnect /\ UNCHANGED exceptSocket
    \/ ServiceSubscribe /\ UNCHANGED exceptSocket
    \/ ServiceUnsubscribe /\ UNCHANGED exceptSocket
    \/ ServiceUpdateMissionConfig /\ UNCHANGED exceptSocket

SocketSpec == Init /\ [][SocketNext]_vars

HookNext ==
    \/ HookSocketConnect /\ UNCHANGED exceptHook
    \/ HookSocketDisconnect /\ UNCHANGED exceptHook
    \/ HookSocketConnectError /\ UNCHANGED exceptHook
    \/ HookTimeout /\ UNCHANGED exceptHook
    \/ HookConnect /\ UNCHANGED exceptHook
    \/ HookDisconnect /\ UNCHANGED exceptHook
    \/ UnmountHook /\ UNCHANGED exceptHook

HookSpec == Init /\ [][HookNext]_vars

SceneNext ==
    \/ Poll("planetary") /\ UNCHANGED exceptScene
    \/ Poll("atlas") /\ UNCHANGED exceptScene
    \/ ResolvePlanetaryPositions /\ UNCHANGED exceptScene
    \/ ResolveAtlasData /\ UNCHANGED exceptScene
    \/ UnmountScene /\ UNCHANGED exceptScene
    \/ AdvanceClockTo(MaxReducerClockSteps) /\ UNCHANGED exceptStore

SceneSpec == Init /\ [][SceneNext]_vars

\* every propulsion kind, payloads of every length up to MaxPayload, and
\* launch windows on both sides of now, at and around the two thresholds
ScoredConfigs ==
    {MissionConfig(launchWindow, propulsionType,
                   SubSeq(<<"camera", "probe", "lander", "relay", "drill", "laser">>,
                          1, count)) :
        launchWindow \in {0 - 40 * Day, 0 - 12 * 60 * 60 * Second,
                          12 * 60 * 60 * Second, Day, 10 * Day, 30 * Day,
                          40 * Day},
        propulsionType \in PropulsionTypes,
        count \in 0 .. MaxPayload}

ScoreInit ==
    /\ now = 0
    /\ state \in {ReduceSetMissionConfig(initialState(0), c) : c \in ScoredConfigs}
    /\ interval = Null
    /\ last = [type |-> "init",
               before |-> [isRunning |-> FALSE, elapsedTime |-> 0,
                           phase |-> "null", tickPending |-> FALSE]]
    /\ intervalsFired = 0
    /\ ApiInit /\ SocketInit /\ HookInit /\ SceneInit /\ CalcInit /\ PathInit
    /\ KeplerInit /\ BoundaryInit

ScoreNext == DispatchStartSimulation /\ UNCHANGED exceptStore

ScoreSpec == ScoreInit /\ [][ScoreNext]_vars

CalcNext == CalcCall /\ UNCHANGED exceptPure

CalcSpecInit ==
    StoreInit /\ ApiInit /\ SocketInit /\ HookInit /\ SceneInit /\ BoundaryInit
        /\ CalcDraw /\ PathInit /\ KeplerInit

CalcSpec == CalcSpecInit /\ [][CalcNext]_vars

PathNext == PathCall /\ UNCHANGED exceptPure

PathSpecInit ==
    StoreInit /\ ApiInit /\ SocketInit /\ HookInit /\ SceneInit /\ BoundaryInit
        /\ CalcInit /\ PathDraw /\ KeplerInit

PathSpec == PathSpecInit /\ [][PathNext]_vars

\* runs that are at most MaxLateTicks ticks short of using up the fuel: the
\* store as the ticks of a run started at 0 - n seconds leave it at time 0,
\* with the velocity and the distance the draws of those ticks have left
LateRuns ==
    {[initialState(0 - n * Second) EXCEPT
        !.simulationState.isRunning = TRUE,
        !.missionStatus =
            Some([phase |-> "LAUNCH",
                  timeToIntercept |-> formatTime(1800),
                  distanceToTarget |-> distance,
                  velocity |-> velocity,
                  fuelRemaining |-> FuelFull - n * FuelPerTick,
                  successProbability |->
                      StartSuccessRate(initialState(0 - n * Second).missionConfig,
                                       0 - n * Second),
                  missionElapsed |-> formatTime(n)])] :
        n \in (FuelFull \div FuelPerTick - MaxLateTicks) .. (FuelFull \div FuelPerTick),
        distance \in {0, 200000, 600000},
        velocity \in {0, 20, 60}}

LateRunInit ==
    /\ now = 0
    /\ state \in LateRuns
    /\ interval = Some([due |-> IntervalPeriod,
                        missionStatus |-> state.missionStatus,
                        currentTime |-> state.simulationState.currentTime])
    /\ last = [type |-> "tick",
               before |-> [isRunning |-> TRUE, elapsedTime |-> 0,
                           phase |-> "LAUNCH", tickPending |-> TRUE]]
    /\ intervalsFired = (0 - state.simulationState.currentTime) \div Second
    /\ ApiInit /\ SocketInit /\ HookInit /\ SceneInit /\ CalcInit /\ PathInit
    /\ KeplerInit /\ BoundaryInit

\* Start, Pause, Reset and the ticks of the simulation loop, late in a run
TelemetryNext ==
    \/ startSimulation /\ UNCHANGED exceptStore
    \/ pauseSimulation /\ UNCHANGED exceptStore
    \/ resetSimulation /\ UNCHANGED exceptStore
    \/ IntervalCallback /\ UNCHANGED exceptStore
    \/ AdvanceClock /\ UNCHANGED exceptStore

TelemetrySpec == LateRunInit /\ [][TelemetryNext]_vars

\* the same, from the store as it is made
RunSpec == Init /\ [][TelemetryNext]_vars

KeplerNext ==
    \/ KeplerIterate /\ UNCHANGED exceptPure
    \/ KeplerReturn /\ UNCHANGED exceptPure

KeplerSpecInit ==
    StoreInit /\ ApiInit /\ SocketInit /\ HookInit /\ SceneInit /\ BoundaryInit
        /\ CalcInit /\ PathInit /\ KeplerDraw

KeplerSpec == KeplerSpecInit /\ [][KeplerNext]_vars

\* the configuration panel alone, from the initial config
PanelNext ==
    \/ TogglePayload /\ UNCHANGED exceptStore
    \/ ChangeLaunchWindow /\ UNCHANGED exceptStore
    \/ ChangePropulsionType /\ UNCHANGED exceptStore
    \/ ChangeTrajectoryType /\ UNCHANGED exceptStore

PanelSpec == Init /\ [][PanelNext]_vars

BoundaryNext ==
    \/ RenderFailure("canvas") /\ UNCHANGED <<apiVars, socketVars, pureVars>>
    \/ RenderFailure("overlay") /\ UNCHANGED <<apiVars, socketVars, pureVars>>
    \/ RenderFailure("shell") /\ UNCHANGED <<apiVars, socketVars, pureVars>>
    \/ handleReset /\ UNCHANGED <<apiVars, socketVars, pureVars>>
    \/ WhileProvided(\E c \in MissionConfigs : setMissionConfig(c))
            /\ UNCHANGED <<apiVars, socketVars, hookVars, sceneVars, pureVars>>
    \/ WhileProvided(startSimulation)
            /\ UNCHANGED <<apiVars, socketVars, hookVars, sceneVars, pureVars>>
    \/ WhileProvided(pauseSimulation)
            /\ UNCHANGED <<apiVars, socketVars, hookVars, sceneVars, pureVars>>
    \/ WhileProvided(resetSimulation)
            /\ UNCHANGED <<apiVars, socketVars, hookVars, sceneVars, pureVars>>

BoundarySpec == Init /\ [][BoundaryNext]_vars

(***************************************************************************)
(* Properties of the Mission State Store.                                  *)
(***************************************************************************)
elapsedTime == state.simulationState.elapsedTime
isRunning == state.simulationState.isRunning

\* C1 (ReducerSpec): START_SIMULATION, applied to any store state, yields
\* isRunning = true and elapsedTime = 0 and a mission status with phase
\* LAUNCH, fuelRemaining 100 and missionElapsed 00:00:00 that is the status
\* Start gives when there was no status before: nothing is carried over.
StartYieldsFreshRun ==
    [][DispatchStartSimulation =>
         /\ state'.simulationState.isRunning = TRUE
         /\ state'.simulationState.elapsedTime = 0
         /\ state'.missionStatus # Null
         /\ state'.missionStatus[1].phase = "LAUNCH"
         /\ state'.missionStatus[1].fuelRemaining = 1000
         /\ state'.missionStatus[1].missionElapsed = "00:00:00"
         /\ \E rnd \in StartDraws :
               state'.missionStatus =
                  ReduceStartSimulation([state EXCEPT !.missionStatus = Null],
                                        now, rnd).missionStatus]_vars

\* Start was applied to a running store with elapsed time and a CRUISE status
StartFromRunningWitness ==
    /\ last.type = "START_SIMULATION"
    /\ last.before.isRunning
    /\ last.before.elapsedTime > 0
    /\ last.before.phase = "CRUISE"
    /\ state.missionStatus[1].phase = "LAUNCH"

\* C2 (ReducerSpec): RESET_SIMULATION, applied to any store state, yields
\* isRunning = false, elapsedTime = 0 and missionStatus = null.
ResetClearsRun ==
    [][DispatchResetSimulation =>
         /\ state'.simulationState.isRunning = FALSE
         /\ state'.simulationState.elapsedTime = 0
         /\ state'.missionStatus = Null]_vars

\* Reset was applied to a running store with elapsed time and a status
ResetFromRunningWitness ==
    /\ last.type = "RESET_SIMULATION"
    /\ last.before.isRunning
    /\ last.before.elapsedTime > 0
    /\ last.before.phase = "LAUNCH"
    /\ state.missionStatus = Null

\* C3 (ReducerSpec): PAUSE_SIMULATION changes nothing but isRunning, which
\* becomes false: elapsedTime, currentTime, timeAcceleration, missionStatus,
\* missionConfig, interceptorTrajectory and missionData are as before.
PauseChangesOnlyRunning ==
    [][DispatchPauseSimulation =>
         /\ state'.simulationState.isRunning = FALSE
         /\ state'.simulationState.elapsedTime = state.simulationState.elapsedTime
         /\ state'.simulationState.currentTime = state.simulationState.currentTime
         /\ state'.simulationState.timeAcceleration = state.simulationState.timeAcceleration
         /\ state'.missionStatus = state.missionStatus
         /\ state'.missionConfig = state.missionConfig
         /\ state'.interceptorTrajectory = state.interceptorTrajectory
         /\ state'.missionData = state.missionData]_vars

\* Pause was applied to a running store in which every field is set
PauseFromRunningWitness ==
    /\ last.type = "PAUSE_SIMULATION"
    /\ last.before.isRunning
    /\ elapsedTime > 0
    /\ state.simulationState.currentTime > 0
    /\ state.missionStatus # Null
    /\ state.interceptorTrajectory # Null
    /\ state.missionData # Null
    /\ state.missionConfig # initialState(0).missionConfig

\* C4 (Spec): while the simulation runs, every 1-second interval of the
\* simulation loop applies Tick, so that elapsedTime counts the intervals
\* of the run.  (Stated as the claim has it; the provider never dispatches
\* UPDATE_SIMULATION_TIME.)
TickPerInterval ==
    isRunning => elapsedTime = intervalsFired

\* C5 (ReducerSpec): elapsedTime goes down only in a Start or a Reset step,
\* each of which sets it to 0; within a run (isRunning before and after the
\* step) only Start lowers it.
ElapsedMonotone ==
    [][/\ (state'.simulationState.elapsedTime < state.simulationState.elapsedTime
            => (DispatchStartSimulation \/ DispatchResetSimulation))
       /\ ((DispatchStartSimulation \/ DispatchResetSimulation)
            => state'.simulationState.elapsedTime = 0)
       /\ ((state.simulationState.isRunning /\ state'.simulationState.isRunning
             /\ ~DispatchStartSimulation)
            => state'.simulationState.elapsedTime >= state.simulationState.elapsedTime)]_vars

\* a restart brought a counter that had advanced back to 0
ElapsedRestartWitness ==
    /\ last.type = "START_SIMULATION"
    /\ last.before.elapsedTime >= 2
    /\ elapsedTime = 0

\* C6 (Spec): the interval of the simulation loop exists only while
\* isRunning is true, its callback runs only while isRunning is true, and
\* while isRunning is false the mission status changes only by Start,
\* Reset or an external UpdateStatus, never by a tick, also when a tick was
\* due at the moment of the Pause or Reset.
TelemetryOnlyWhileRunning ==
    [][/\ (~state.simulationState.isRunning => interval = Null)
       /\ (~state'.simulationState.isRunning => interval' = Null)
       /\ (IntervalCallback => state.simulationState.isRunning)
       /\ ((~state.simulationState.isRunning /\ state'.missionStatus # state.missionStatus)
            => last'.type \in {"START_SIMULATION", "RESET_SIMULATION",
                               "UPDATE_MISSION_STATUS"})]_vars

\* Pause came while a tick of the interval was due
PauseWithTickPendingWitness ==
    /\ last.type = "PAUSE_SIMULATION"
    /\ last.before.isRunning
    /\ last.before.tickPending
    /\ state.missionStatus # Null
    /\ interval = Null

(***************************************************************************)
(* Properties of the Data Access Layer.                                    *)
(***************************************************************************)
Failed(outcome) == outcome.kind # "ok"

\* C7 (ApiSpec): a call that has ended has resolved to an envelope and
\* thrown nothing, whatever the attempts came to; the envelope has a
\* timestamp, and either success with the payload and no error (exactly
\* when the last attempt was ok with a body that parses), or failure with
\* an error message and no payload.
ApiNeverThrows ==
    /\ (apiPc = "done") <=> (settled # Null)
    /\ settled # Null =>
          LET envelope == settled[1]
              final == outcomes[Len(outcomes)]
          IN /\ ~envelope.thrown
             /\ envelope.timestamp \in Nat
             /\ envelope.success <=> (final.kind = "ok" /\ final.parses)
             /\ envelope.success => (envelope.data # Null /\ envelope.error = Null)
             /\ ~envelope.success => (envelope.error # Null /\ envelope.data = Null)

\* a call ended on a response whose body does not parse, after a retry
UnparsableBodyWitness ==
    /\ settled # Null
    /\ ~settled[1].success
    /\ Len(outcomes) > 1
    /\ outcomes[Len(outcomes)] = [kind |-> "ok", parses |-> FALSE]

\* C8 (ApiSpec): a call makes at most 4 fetch attempts (3 retries), none
\* after an attempt that was ok, and when the 4th attempt fails the call
\* has ended with a failed envelope that carries the error of that attempt.
AtMostFourAttempts ==
    /\ Len(outcomes) <= 4
    /\ \A i \in 1 .. (Len(outcomes) - 1) : Failed(outcomes[i])
    /\ (Len(outcomes) = 4 /\ Failed(outcomes[4])) =>
          /\ apiPc = "done"
          /\ settled # Null
          /\ ~settled[1].success
          /\ settled[1].error = Some(AttemptError(outcomes[4]).message)

\* the retries ran out, on an error other than the one before it
RetriesExhaustedWitness ==
    /\ Len(outcomes) = 4
    /\ outcomes[4] = [kind |-> "http", status |-> 503]
    /\ outcomes[3] = [kind |-> "http", status |-> 429]
    /\ settled # Null

\* the failures the claim names as retried
Transient(outcome) ==
    \/ outcome.kind = "network"
    \/ outcome.kind = "http" /\ outcome.status >= 500 /\ outcome.status < 600
    \/ outcome.kind = "http" /\ outcome.status = 429

\* C9 (ApiSpec): with retries still available (attempts 1 to 3), a failed
\* attempt is followed by a wait and another attempt exactly when the
\* failure is a network failure, an HTTP 5xx or an HTTP 429.  (Stated as the
\* claim has it.)
RetryIffTransient ==
    \A i \in 1 .. Len(outcomes) :
        (Failed(outcomes[i]) /\ i <= 3) =>
            ((i < Len(outcomes) \/ apiPc = "sleep") <=> Transient(outcomes[i]))

\* C10 (ApiSpec): the k-th wait of a call (after failed attempt k - 1,
\* counted from 0) is min(1000 * 2^(k-1), 10000) ms, so the waits are
\* 1000, 2000, 4000; a wait follows only a retryable failure of one of the
\* first 3 attempts, and none follows the attempt that ended the call.
BackoffSchedule ==
    /\ Len(delays) <= 3
    /\ \A k \in 1 .. Len(delays) :
          /\ delays[k] = Min(1000 * 2 ^ (k - 1), 10000)
          /\ delays[k] = <<1000, 2000, 4000>>[k]
          /\ delays[k] <= 10000
    /\ apiPc = "sleep" =>
          /\ Len(delays) = Len(outcomes)
          /\ isRetryableError(AttemptError(outcomes[Len(outcomes)]))
    /\ apiPc = "fetch" => Len(delays) = Len(outcomes)
    /\ apiPc = "done" => Len(delays) = Len(outcomes) - 1

\* a call went through all three waits
ThreeWaitsWitness ==
    /\ apiPc = "done"
    /\ delays = <<1000, 2000, 4000>>
    /\ apiClock >= 7000

(***************************************************************************)
(* Properties of the push channel.                                         *)
(***************************************************************************)
\* the calls the last step made to a callback of a listener array
Calls(array, cb) ==
    Cardinality({i \in DOMAIN socketStep.trace :
                    /\ socketStep.trace[i][1] = "call"
                    /\ socketStep.trace[i][2] = array
                    /\ socketStep.trace[i][3] = cb})

\* the registrations of a callback whose handle has not been called
LiveRegistrations(array, cb) ==
    {r \in DOMAIN registrations :
        /\ registrations[r].array = array
        /\ registrations[r].callback = cb
        /\ ~registrations[r].unregistered}

\* C11 (SocketSpec): an event of a listener category is received once by
\* every registration of that category whose unregister handle has not been
\* called, a second registration of the same callback included, and by no
\* registration whose handle has been called.
ListenersReceiveWhileRegistered ==
    \A array \in ListenerArrays, cb \in Callbacks :
        socketStep.notified = array =>
            Calls(array, cb) = Cardinality(LiveRegistrations(array, cb))

\* C12 (SocketSpec): the handler of the socket's connect event calls every
\* connection listener with true and then puts one position-feed
\* subscription on the wire, and nothing else; a subscription requested
\* while the socket is not connected puts nothing on the wire and is not
\* held back for later.
SubscribesOnConnect ==
    /\ socketStep.op = "connect" =>
           socketStep.trace = notifyConnectionListeners("true")
                                \o << <<"emit", "subscribe_position_updates">> >>
    /\ socketStep.op = "subscribeToPositionUpdates" /\ ~socket.connected =>
           socketStep.trace = <<>>
    /\ \A i \in DOMAIN socket.sendBuffer :
           socket.sendBuffer[i] # "subscribe_position_updates"

\* the socket connects after a subscription was asked for while it was not
\* connected, with a connection listener registered
ConnectAfterRefusedSubscribeWitness ==
    /\ socketStep.op = "connect"
    /\ socket.askedWhileDown
    /\ Len(listeners.connectionListeners) >= 1

\* C13 (HookSpec): once the owner of a useWebSocket instance is unmounted,
\* no socket made by the instance is connected, no reconnection timeout is
\* pending, and connect() has not run since.
UnmountReleasesSocket ==
    ~hook.mounted =>
        /\ \A i \in DOMAIN sockets : ~sockets[i].connected
        /\ ~reconnectionTimeoutRef
        /\ ~hook.connectedAfterUnmount

(***************************************************************************)
(* Properties of the scene component.                                      *)
(***************************************************************************)
\* C14 (SceneSpec): once the scene component is unmounted both polling
\* intervals are cancelled, no state setter is called for a response that
\* arrives later, and the component state is what it was at the unmount.
UnmountStopsPolling ==
    ~scene.mounted =>
        /\ \A e \in Effects : ~scene.interval[e]
        /\ ~scene.lateSetter
        /\ sceneAtUnmount = Some(sceneState)

\* a successful response with data has arrived after the unmount
LateResponseWitness ==
    /\ ~scene.mounted
    /\ scene.lateResponse

(***************************************************************************)
(* Properties of mission configuration and scoring.                        *)
(***************************************************************************)
\* C15 (ReducerSpec): in every reachable state, SET_MISSION_CONFIG with a
\* config c stores exactly c, and applying it a second time changes
\* nothing; the config stored after a SET_MISSION_CONFIG is the one that
\* was dispatched.
SetConfigIdempotent ==
    /\ \A c \in MissionConfigs \cup {initialState(0).missionConfig} :
           LET once == ReduceSetMissionConfig(state, c)
           IN /\ once.missionConfig = c
              /\ ReduceSetMissionConfig(once, c) = once
    /\ last.type = "SET_MISSION_CONFIG" => state.missionConfig \in MissionConfigs

\* a config was set during a run
SetConfigWhileRunningWitness ==
    /\ last.type = "SET_MISSION_CONFIG"
    /\ last.before.isRunning
    /\ state.missionConfig \in MissionConfigs

\* C16 (ScoreSpec): the successProbability stored by START_SIMULATION is
\* 75, plus 15 for nuclear, 10 for ion and 5 for chemical propulsion, plus
\* 10 when the launch window is less than a day away from now and minus 15
\* when it is more than 30 days away, minus 2 per payload item, clamped to
\* 60 .. 95.
StartScoresConfig ==
    last.type = "START_SIMULATION" =>
        LET config == state.missionConfig
            away == Abs(config.launchWindow - now)
            propulsionBonus == CASE config.propulsionType = "nuclear" -> 15
                                 [] config.propulsionType = "ion" -> 10
                                 [] config.propulsionType = "chemical" -> 5
            timingAdjustment == IF away < Day THEN 10
                                ELSE IF away > 30 * Day THEN 0 - 15
                                ELSE 0
            raw == 75 + propulsionBonus + timingAdjustment
                      - 2 * Len(config.payload)
            stored == state.missionStatus[1].successProbability
        IN /\ stored = (IF raw < 60 THEN 60 ELSE IF raw > 95 THEN 95 ELSE raw)
           /\ stored >= 60 /\ stored <= 95

\* a start with the longest payload list, held at the lower end of the range
LongPayloadStartWitness ==
    /\ last.type = "START_SIMULATION"
    /\ Len(state.missionConfig.payload) = MaxPayload
    /\ state.missionStatus[1].successProbability = 60

(***************************************************************************)
(* Properties of calculateSuccessProbability.                              *)
(***************************************************************************)
\* C17 (CalcSpec): what calculateSuccessProbability returns is a number
\* from 5 to 95.
ProbabilityInRange ==
    calcResult # Null =>
        /\ calcResult[1].kind = "fin"
        /\ calcResult[1].v >= 5 * 100
        /\ calcResult[1].v <= 95 * 100

\* C18 (CalcSpec): with velocity and propulsion kind fixed, a call with a
\* greater distance and the same fuel, or with less fuel and the same
\* distance, returns no greater a result.
ProbabilityMonotone ==
    calcResult # Null =>
        \A other \in CalcInputs :
            (/\ other.velocity = calcArgs.velocity
             /\ other.propulsionType = calcArgs.propulsionType
             /\ \/ /\ other.fuelRemaining = calcArgs.fuelRemaining
                   /\ other.distance >= calcArgs.distance
                \/ /\ other.distance = calcArgs.distance
                   /\ other.fuelRemaining <= calcArgs.fuelRemaining)
            => ~FLess(calcResult[1], Calculate(other))

(***************************************************************************)
(* Properties of the path split.                                           *)
(***************************************************************************)
\* C19 (PathSpec): when sample k (counted from 0) is the sample closest to
\* the current position, the past segment is samples 0 .. k, k + 1 of
\* them, and the future segment starts at sample k.
SplitKeepsNearestInPast ==
    pathSplit # Null =>
        LET k == SplitIndex(pathArgs.points, pathArgs.position)
        IN /\ pathSplit[1].past = SubSeq(pathArgs.points, 1, k + 1)
           /\ Len(pathSplit[1].past) = k + 1
           /\ pathSplit[1].future
                = SubSeq(pathArgs.points, k + 1, Len(pathArgs.points))

(***************************************************************************)
(* Properties of the error boundaries.                                     *)
(***************************************************************************)
\* C20 (BoundarySpec): a render failure in the 3D canvas or in the UI
\* overlay sets hasError of that region's own boundary and of no other:
\* the other region's boundary and the outer boundary are left as they
\* were, the outer one without an error, and the store keeps its state.
RegionFailureIsolated ==
    [][\A region \in MajorRegions :
          lastFailure' = region =>
              /\ boundaries' = [boundaries EXCEPT ![region] = TRUE]
              /\ ~boundaries'.app
              /\ state' = state]_vars

\* the canvas failed during a run; the overlay and the store are untouched
CanvasFailedDuringRunWitness ==
    /\ lastFailure = "canvas"
    /\ boundaries = [app |-> FALSE, canvas |-> TRUE, overlay |-> FALSE]
    /\ isRunning

(***************************************************************************)
(* Properties of the configuration panel.                                  *)
(***************************************************************************)
\* C21: the payload list of the stored config never holds the same entry
\* twice, whatever sequence of checkbox toggles and other edits of the
\* panel led to it from the initial config.
PayloadHasNoDuplicates ==
    LET payload == state.missionConfig.payload
    IN \A i, j \in 1 .. Len(payload) : payload[i] = payload[j] => i = j

\* a box was unchecked and checked again after another edit: the payload
\* holds all three options, in an order the initial config does not start
AllBoxesCheckedWitness ==
    /\ last.type = "SET_MISSION_CONFIG"
    /\ state.missionConfig.payload = <<"probe", "spectrometer", "camera">>
    /\ state.missionConfig.propulsionType = "nuclear"


(***************************************************************************)
(* Properties of solveKeplerEquation.                                      *)
(***************************************************************************)
\* C22: for every eccentricity 0 <= e < 1 and every mean anomaly M the
\* loop ends within a bounded number of iterations, and the E returned
\* satisfies |E - e * sin(E) - M| < tolerance.
KeplerConverges ==
    /\ kepler.pc = "loop" /\ KeplerLoopCondition(kepler)
            => kepler.iterations < MaxIterations
    /\ kepler.pc = "returned"
            => FLess(FAbs(KeplerResidual(kepler.E, kepler.e, kepler.M)),
                     kepler.tolerance)


(***************************************************************************)
(* Properties of the simulated telemetry.                                  *)
(***************************************************************************)
\* the time-to-intercept strings of 30 to 90 minutes
HalfToOneAndAHalfHours == {formatTime(seconds) : seconds \in 1800 .. 5400}

\* C23 (ScoreSpec): the status START_SIMULATION stores has a
\* time-to-intercept of 30 to 90 minutes, a distanceToTarget of 100 to 150
\* million km and a velocity of 15 to 20 km/s (MissionStatus.velocity is
\* in km/s), whatever the random draws.
StartTelemetryInBands ==
    last.type = "START_SIMULATION" =>
        LET status == state.missionStatus[1]
        IN /\ status.timeToIntercept \in HalfToOneAndAHalfHours
           /\ status.distanceToTarget >= 100000000
           /\ status.distanceToTarget <= 150000000
           /\ status.velocity >= 15
           /\ status.velocity <= 20

\* a step of the simulation-loop callback that dispatched a status
TelemetryTick ==
    /\ last'.type = "tick"
    /\ state.missionStatus # Null
    /\ state'.missionStatus # state.missionStatus

\* C24 (TelemetrySpec): a tick lowers fuelRemaining by 0.1, not below 0, and
\* raises neither velocity nor distanceToTarget, neither going below 0; so
\* through Start, ticks, Pause and Reset fuelRemaining stays within 0 .. 100
\* and, from one Start to the next, the three never grow and are never
\* negative.
TelemetryOnlyFalls ==
    [][LET old == state.missionStatus[1]
           new == state'.missionStatus[1]
       IN /\ TelemetryTick =>
                /\ new.fuelRemaining = Max(0, old.fuelRemaining - FuelPerTick)
                /\ new.velocity <= old.velocity
                /\ new.distanceToTarget <= old.distanceToTarget
          /\ state'.missionStatus # Null =>
                /\ new.fuelRemaining >= 0 /\ new.fuelRemaining <= FuelFull
                /\ new.velocity >= 0 /\ new.distanceToTarget >= 0
          /\ (state.missionStatus # Null /\ state'.missionStatus # Null
                /\ last'.type # "START_SIMULATION") =>
                /\ new.fuelRemaining <= old.fuelRemaining
                /\ new.velocity <= old.velocity
                /\ new.distanceToTarget <= old.distanceToTarget]_vars

\* a tick found the fuel used up and a velocity and a distance smaller than
\* its draws, and left all three at 0
FloorsReachedWitness ==
    /\ last.type = "tick"
    /\ state.missionStatus # Null
    /\ state.missionStatus[1].fuelRemaining = 0
    /\ state.missionStatus[1].velocity = 0
    /\ state.missionStatus[1].distanceToTarget = 0
    /\ state.missionStatus[1].missionElapsed = formatTime(FuelFull \div FuelPerTick + 1)

(***************************************************************************)
(* Properties of the scene.                                                *)
(***************************************************************************)
\* 1 AU -> 30 units, the ecliptic-normal axis drawn upwards and
\* exaggerated 6 times
LinearSceneMap(au) == <<30 * au[1], 6 * 30 * au[3], 0 - 30 * au[2]>>

\* C25 (SceneSpec): every planet, placed from its live or from its fallback
\* heliocentric position, and the tracked object, placed from the position
\* map or from the object descriptor, is at (30 x, 6 * 30 z, -30 y) for the
\* heliocentric (x, y, z) it was placed from.
ScenePositionsLinear ==
    /\ \A name \in planetaryData :
          LET livePosition == sceneState.livePlanetaryPositions[name]
          IN planets(sceneState)[name] =
                LinearSceneMap(IF livePosition # Null THEN livePosition[1]
                               ELSE FallbackHeliocentric[name])
    /\ sceneState.atlasPosition # Null =>
          /\ scene.placedFrom # Null
          /\ sceneState.atlasPosition[1] = LinearSceneMap(scene.placedFrom[1])

RunningHasStatus ==
    state.simulationState.isRunning => state.missionStatus # Null

\* a run that was started some time after the store was made, and has
\* ticked
TickOfLaterRunWitness ==
    /\ state.simulationState.isRunning
    /\ last.type = "tick"
    /\ state.simulationState.currentTime > 0
    /\ state.missionStatus # Null
    /\ state.missionStatus[1].fuelRemaining < FuelFull

\* C28 (RunSpec): a tick changes missionElapsed, velocity, distanceToTarget
\* and fuelRemaining of the status and nothing else of it; so through Start,
\* ticks, Pause and Reset a status that is there has the phase LAUNCH, and
\* its timeToIntercept and successProbability change only by a Start and
\* are the ones the last Start stored.
TickKeepsStartFields ==
    [][LET old == state.missionStatus[1]
           new == state'.missionStatus[1]
       IN /\ TelemetryTick =>
                \A field \in DOMAIN old \ {"missionElapsed", "velocity",
                                           "distanceToTarget", "fuelRemaining"} :
                    new[field] = old[field]
          /\ state'.missionStatus # Null =>
                /\ new.phase = "LAUNCH"
                /\ new.successProbability =
                      StartSuccessRate(state'.missionConfig,
                                       state'.simulationState.currentTime)
          /\ (state.missionStatus # Null /\ state'.missionStatus # Null
                /\ last'.type # "START_SIMULATION") =>
                /\ new.phase = old.phase
                /\ new.timeToIntercept = old.timeToIntercept
                /\ new.successProbability = old.successProbability]_vars

\* a run started with the higher draws has ticked twice and been paused
PausedAfterTicksWitness ==
    /\ last.type = "PAUSE_SIMULATION"
    /\ state.missionStatus # Null
    /\ state.missionStatus[1].timeToIntercept = formatTime(1800 + 3600 \div RandDenom)
    /\ state.missionStatus[1].fuelRemaining = FuelFull - 2 * FuelPerTick
    /\ state.missionStatus[1].missionElapsed = formatTime(2)

\* C29 (SceneSpec): a planetary-position poll goes out at every period
\* whether or not earlier ones are still in flight, and the live positions
\* held are those of the poll sent last among the polls that have brought
\* data: data of an older poll never replaces data of a newer one.
LivePositionsFromNewestPoll ==
    /\ (scene.interval["planetary"] /\ Len(scene.inFlight["planetary"]) < MaxInFlight)
            => ENABLED Poll("planetary")
    /\ ~scene.shownOvertaken["planetary"]

(***************************************************************************)
(* Properties of useWebSocket's reconnection.                              *)
(***************************************************************************)
\* C30 (HookSpec): when the reconnection timeout runs connect() again after
\* a disconnect the client did not ask for, every socket the hook made
\* earlier has been closed, so that the hook never has two sockets that
\* were not explicitly disconnected; and a disconnect() by the client
\* leaves no reconnection pending.
ReconnectReplacesSocket ==
    [][/\ HookTimeout => \A i \in DOMAIN sockets : sockets[i].closed
       /\ HookDisconnect => ~reconnectionTimeoutRef']_vars

====
